---- MODULE Spec2Model ----
(***************************************************************************)
(* The Phase III AI chatbot backend: the MCP tool registry, the five task  *)
(* tools, the agent turn controller and the chat endpoint with its rate    *)
(* limiter, as one state machine.                                          *)
(*                                                                         *)
(* Conventions.  An Optional value is a tuple of length 0 (None) or 1.     *)
(* A datetime is [wall, tz]: wall-clock seconds and an Optional UTC        *)
(* offset.  A string whose length matters is [lead, core, n, trail]:       *)
(* lead blanks, a core of n characters that starts and ends with a         *)
(* non-blank, and trail blanks.  An error text is a tuple of its pieces.   *)
(***************************************************************************)
EXTENDS Integers, Sequences, FiniteSets, TLC

VARIABLES
    registry,         \* MCPToolRegistry._tools, in insertion order
    now,              \* datetime.now(timezone.utc), in seconds
    tasks,            \* the rows of the task table
    nextTaskId,       \* the next primary key of the task table
    calls,            \* how many dispatches have been made
    call,             \* the execute_tool or register_tool call made by the last step, if any
    result,           \* what that call returned
    user_rate_limit,  \* routes/chat.py user_rate_limit: user id -> request timestamps
    admittedLog,      \* per user, when requests were admitted in the last minute (history)
    rateCheck,        \* the check_rate_limit call made by the last step, if any
    openai_client,    \* agent.py openai_client: whether an API key configured a client
    conversations,    \* committed rows of the conversation table
    messages,         \* committed rows of the message table
    nextConversationId, \* next key of the conversation table
    nextMessageId,    \* next key of the message table
    turns,            \* the chat requests: where each is in send_chat_message
    reply             \* the last answer of a conversation endpoint, if any

None == << >>
Some(v) == <<v>>

Users == {1, 2}

(***************************************************************************)
(* Bounds of the model.                                                    *)
(***************************************************************************)
MaxTasks == 2         \* rows the task table is allowed to receive
ToolMaxClock == 1     \* clock ticks taken while tools are dispatched
ClockStep == 30       \* seconds per tick

(***************************************************************************)
(* Strings and datetimes.                                                  *)
(***************************************************************************)
Str(lead, core, n, trail) == [lead |-> lead, core |-> core, n |-> n, trail |-> trail]

StrLen(s) == s.lead + s.n + s.trail

\* str.strip()
Strip(s) == [s EXCEPT !.lead = 0, !.trail = 0]

\* str.lower() on the enum spellings the inputs use
Lower(s) ==
    CASE s = "HIGH" -> "high"
      [] s = "Work" -> "work"
      [] OTHER -> s

Naive(wall) == [wall |-> wall, tz |-> None]
Aware(wall, off) == [wall |-> wall, tz |-> Some(off)]

\* the instant a timezone-aware datetime denotes
Instant(d) == d.wall - d.tz[1]

\* datetime.replace(tzinfo=timezone.utc)
ReplaceUtc(d) == [d EXCEPT !.tz = Some(0)]

\* datetime.replace(tzinfo=None)
ReplaceNaive(d) == [d EXCEPT !.tz = None]

\* datetime.isoformat()
IsoFormat(d) == [iso |-> d]

\* get_utc_now(): the current time as a timezone-naive UTC datetime
get_utc_now(t) == ReplaceNaive(Aware(t, 0))

TITLE_MAX_LENGTH == 200
DESCRIPTION_MAX_LENGTH == 1000
LIMIT_MAX == 100

VALID_PRIORITIES == {"low", "medium", "high"}
VALID_CATEGORIES == {"work", "personal", "shopping", "health", "finance", "education", "other"}
PRIORITY_MEDIUM == "medium"
VALID_STATUS == {"all", "complete", "incomplete"}

(***************************************************************************)
(* Input schemas of the tools (pydantic).  Each XxxErrors is the list of   *)
(* validation messages the schema's constructor raises with, empty when   *)
(* the arguments are accepted; each XxxInput is the validated object.      *)
(***************************************************************************)
Has(args, f) == f \in DOMAIN args /\ args[f] # None

Field(args, f) == IF f \in DOMAIN args THEN args[f] ELSE None

\* Field(min_length=lo, max_length=hi) on a string that may be absent
LengthErrors(name, v, lo, hi) ==
    IF v = None THEN << >>
    ELSE IF StrLen(v[1]) < lo THEN <<name, ": String should have at least ", ToString(lo), " character">>
    ELSE IF StrLen(v[1]) > hi THEN <<name, ": String should have at most ", ToString(hi), " characters">>
    ELSE << >>

RequiredErrors(name, v) ==
    IF v = None THEN <<name, ": Field required">> ELSE << >>

\* validate_future_date: a naive datetime is read as UTC; not later than now is refused
validate_future_date(v, t) ==
    IF v = None THEN None
    ELSE LET d == IF v[1].tz = None THEN ReplaceUtc(v[1]) ELSE v[1]
         IN  Some(d)

\* mutant: a due date equal to the current time is let through
FutureDateErrors_admits_now(v, t) ==
    IF v = None THEN << >>
    ELSE LET d == IF v[1].tz = None THEN ReplaceUtc(v[1]) ELSE v[1]
         IN  IF Instant(d) < t
             THEN <<"due_date", ": Value error, Due date must be in the future">>
             ELSE << >>

FutureDateErrors(v, t) ==
    IF v = None THEN << >>
    ELSE LET d == IF v[1].tz = None THEN ReplaceUtc(v[1]) ELSE v[1]
         IN  IF Instant(d) <= t
             THEN <<"due_date", ": Value error, Due date must be in the future">>
             ELSE << >>

\* validate_priority / validate_category: lower-cased, then looked up
validate_enum(v) == IF v = None THEN None ELSE Some(Lower(v[1]))

EnumErrors(name, v, valid, label) ==
    IF v = None \/ Lower(v[1]) \in valid THEN << >>
    ELSE <<name, ": Value error, ", label, " must be one of the allowed values">>

\* strip_title
strip_title(v) == IF v = None THEN None ELSE Some(Strip(v[1]))

AddTaskErrors(args, t) ==
    RequiredErrors("title", Field(args, "title"))
      \o LengthErrors("title", Field(args, "title"), 1, TITLE_MAX_LENGTH)
      \o LengthErrors("description", Field(args, "description"), 0, DESCRIPTION_MAX_LENGTH)
      \o FutureDateErrors(Field(args, "due_date"), t)

AddTaskInput(args, t) ==
    [title |-> strip_title(Field(args, "title"))[1],
     description |-> Field(args, "description"),
     due_date |-> validate_future_date(Field(args, "due_date"), t)]

CompleteTaskErrors(args) ==
    RequiredErrors("task_id", Field(args, "task_id"))
      \o RequiredErrors("completed", Field(args, "completed"))

CompleteTaskInput(args) ==
    [task_id |-> Field(args, "task_id")[1], completed |-> Field(args, "completed")[1]]

DeleteTaskErrors(args) == RequiredErrors("task_id", Field(args, "task_id"))

DeleteTaskInput(args) == [task_id |-> Field(args, "task_id")[1]]

UpdateTaskErrors(args, t) ==
    RequiredErrors("task_id", Field(args, "task_id"))
      \o LengthErrors("title", Field(args, "title"), 1, TITLE_MAX_LENGTH)
      \o LengthErrors("description", Field(args, "description"), 0, DESCRIPTION_MAX_LENGTH)
      \o EnumErrors("priority", Field(args, "priority"), VALID_PRIORITIES, "Priority")
      \o EnumErrors("category", Field(args, "category"), VALID_CATEGORIES, "Category")
      \o FutureDateErrors(Field(args, "due_date"), t)

UpdateTaskInput(args, t) ==
    [task_id |-> Field(args, "task_id")[1],
     title |-> strip_title(Field(args, "title")),
     description |-> Field(args, "description"),
     priority |-> validate_enum(Field(args, "priority")),
     category |-> validate_enum(Field(args, "category")),
     due_date |-> validate_future_date(Field(args, "due_date"), t)]

\* the schema's defaults: status "all", limit 50, offset 0
DEFAULT_LIMIT == 50

ListTasksErrors(args) ==
    (IF Has(args, "status") /\ args.status[1] \notin VALID_STATUS
     THEN <<"status", ": Input should be 'all', 'complete' or 'incomplete'">> ELSE << >>)
      \o (IF Has(args, "limit") /\ args.limit[1] < 1
          THEN <<"limit", ": Input should be greater than or equal to 1">>
          ELSE IF Has(args, "limit") /\ args.limit[1] > LIMIT_MAX
          THEN <<"limit", ": Input should be less than or equal to 100">> ELSE << >>)
      \o (IF Has(args, "offset") /\ args.offset[1] < 0
          THEN <<"offset", ": Input should be greater than or equal to 0">> ELSE << >>)

ListTasksInput(args) ==
    [status |-> IF Has(args, "status") THEN args.status[1] ELSE "all",
     limit |-> IF Has(args, "limit") THEN args.limit[1] ELSE DEFAULT_LIMIT,
     offset |-> IF Has(args, "offset") THEN args.offset[1] ELSE 0]

(***************************************************************************)
(* The tool handlers.  A handler reads the execution context, the          *)
(* validated input and the task table, and yields an outcome: the result   *)
(* it returns and the task table and key counter it leaves committed.      *)
(***************************************************************************)
Outcome(res, store, nextId) == [res |-> res, tasks |-> store, nextTaskId |-> nextId]

\* context.get("user_id") followed by "if not user_id"
Unauthenticated(ctx) == ctx.user_id = None \/ ctx.user_id[1] = 0

AuthRequiredError == <<"Authentication required: user_id not found in context">>

NotFoundError(task_id) == <<"Task ", ToString(task_id), " not found or access denied">>

AtLeastOneFieldError ==
    <<"At least one field (title, description, priority, category, due_date) must be provided">>

\* the Output models: AddTaskOutput, CompleteTaskOutput and UpdateTaskOutput share a shape
TaskOutput(success, task, error) == [success |-> success, task |-> task, error |-> error]

DeleteTaskOutput(success, message, deleted, error) ==
    [success |-> success, message |-> message, deleted_task_id |-> deleted, error |-> error]

ListTasksOutput(success, rows, total, offset, limit, error) ==
    [success |-> success, tasks |-> rows, total |-> total, offset |-> offset,
     limit |-> limit, error |-> error]

\* mutant: the lookup forgets the owner
SelectById(store, task_id, user_id) == {r \in store : r.id = task_id}

\* select(Task).where(Task.id == task_id, Task.user_id == user_id)
SelectOwned(store, task_id, user_id) == {r \in store : r.id = task_id /\ r.user_id = user_id}

OptIso(d) == IF d = None THEN None ELSE Some(IsoFormat(d[1]))

add_task(input, store, nextId, ctx, t) ==
    IF Unauthenticated(ctx)
    THEN Outcome(TaskOutput(FALSE, None, AuthRequiredError), store, nextId)
    ELSE LET row == [id |-> nextId,
                     user_id |-> ctx.user_id[1],
                     title |-> input.title,
                     description |-> input.description,
                     completed |-> FALSE,
                     priority |-> PRIORITY_MEDIUM,
                     category |-> None,
                     due_date |-> IF input.due_date = None THEN None
                                  ELSE IF input.due_date[1].tz = None
                                       THEN Some(ReplaceUtc(input.due_date[1]))
                                       ELSE input.due_date,
                     created_at |-> Aware(t, 0),
                     updated_at |-> Aware(t, 0)]
             task_dict == [id |-> row.id,
                           title |-> row.title,
                           description |-> row.description,
                           due_date |-> OptIso(row.due_date),
                           completed |-> row.completed,
                           created_at |-> IsoFormat(row.created_at),
                           user_id |-> row.user_id]
         IN  Outcome(TaskOutput(TRUE, Some(task_dict), None), store \cup {row}, nextId + 1)

complete_task(input, store, nextId, ctx, t) ==
    IF Unauthenticated(ctx)
    THEN Outcome(TaskOutput(FALSE, None, AuthRequiredError), store, nextId)
    ELSE LET found == SelectOwned(store, input.task_id, ctx.user_id[1])
         IN  IF found = {}
             THEN Outcome(TaskOutput(FALSE, None, NotFoundError(input.task_id)), store, nextId)
             ELSE LET old == CHOOSE r \in found : TRUE
                      row == [old EXCEPT !.completed = input.completed,
                                         !.updated_at = get_utc_now(t)]
                      task_dict == [id |-> row.id,
                                    title |-> row.title,
                                    completed |-> row.completed,
                                    updated_at |-> IsoFormat(row.updated_at)]
                  IN  Outcome(TaskOutput(TRUE, Some(task_dict), None),
                              (store \ {old}) \cup {row}, nextId)

\* mutant: the row is deleted by id before its owner is checked
delete_task_before_check(input, store, nextId, ctx, t) ==
    IF Unauthenticated(ctx)
    THEN Outcome(DeleteTaskOutput(FALSE, None, None, AuthRequiredError), store, nextId)
    ELSE LET found == SelectOwned(store, input.task_id, ctx.user_id[1])
             gone == {r \in store : r.id # input.task_id}
         IN  IF found = {}
             THEN Outcome(DeleteTaskOutput(FALSE, None, None, NotFoundError(input.task_id)),
                          gone, nextId)
             ELSE Outcome(DeleteTaskOutput(TRUE,
                                           <<"Task ", ToString(input.task_id), " deleted successfully">>,
                                           Some(input.task_id), None),
                          gone, nextId)

\* mutant: the handler goes to the lookup without checking the context
delete_task_unchecked(input, store, nextId, ctx, t) ==
    LET found == {r \in store : r.id = input.task_id /\ Some(r.user_id) = ctx.user_id}
    IN  IF found = {}
        THEN Outcome(DeleteTaskOutput(FALSE, None, None, NotFoundError(input.task_id)),
                     store, nextId)
        ELSE Outcome(DeleteTaskOutput(TRUE,
                                      <<"Task ", ToString(input.task_id), " deleted successfully">>,
                                      Some(input.task_id), None),
                     store \ found, nextId)

delete_task(input, store, nextId, ctx, t) ==
    IF Unauthenticated(ctx)
    THEN Outcome(DeleteTaskOutput(FALSE, None, None, AuthRequiredError), store, nextId)
    ELSE LET found == SelectOwned(store, input.task_id, ctx.user_id[1])
         IN  IF found = {}
             THEN Outcome(DeleteTaskOutput(FALSE, None, None, NotFoundError(input.task_id)),
                          store, nextId)
             ELSE Outcome(DeleteTaskOutput(TRUE,
                                           <<"Task ", ToString(input.task_id), " deleted successfully">>,
                                           Some(input.task_id), None),
                          store \ found, nextId)

NoUpdateField(input) ==
    /\ input.title = None
    /\ input.description = None
    /\ input.priority = None
    /\ input.category = None
    /\ input.due_date = None

\* mutant: the description is written whether or not the call supplies one
update_task_writes_description(input, store, nextId, ctx, t) ==
    IF Unauthenticated(ctx)
    THEN Outcome(TaskOutput(FALSE, None, AuthRequiredError), store, nextId)
    ELSE IF NoUpdateField(input)
    THEN Outcome(TaskOutput(FALSE, None, AtLeastOneFieldError), store, nextId)
    ELSE LET found == SelectOwned(store, input.task_id, ctx.user_id[1])
         IN  IF found = {}
             THEN Outcome(TaskOutput(FALSE, None, NotFoundError(input.task_id)), store, nextId)
             ELSE LET old == CHOOSE r \in found : TRUE
                      row == [old EXCEPT
                                !.title = IF input.title # None THEN input.title[1] ELSE @,
                                !.description = input.description,
                                !.priority = IF input.priority # None THEN input.priority[1] ELSE @,
                                !.category = IF input.category # None THEN input.category ELSE @,
                                !.due_date = IF input.due_date # None
                                             THEN Some(ReplaceNaive(input.due_date[1])) ELSE @,
                                !.updated_at = get_utc_now(t)]
                      task_dict == [id |-> row.id,
                                    title |-> row.title,
                                    description |-> row.description,
                                    priority |-> row.priority,
                                    category |-> row.category,
                                    completed |-> row.completed,
                                    due_date |-> OptIso(row.due_date),
                                    created_at |-> IsoFormat(row.created_at),
                                    updated_at |-> IsoFormat(row.updated_at),
                                    user_id |-> row.user_id]
                  IN  Outcome(TaskOutput(TRUE, Some(task_dict), None),
                              (store \ {old}) \cup {row}, nextId)

update_task(input, store, nextId, ctx, t) ==
    IF Unauthenticated(ctx)
    THEN Outcome(TaskOutput(FALSE, None, AuthRequiredError), store, nextId)
    ELSE IF NoUpdateField(input)
    THEN Outcome(TaskOutput(FALSE, None, AtLeastOneFieldError), store, nextId)
    ELSE LET found == SelectOwned(store, input.task_id, ctx.user_id[1])
         IN  IF found = {}
             THEN Outcome(TaskOutput(FALSE, None, NotFoundError(input.task_id)), store, nextId)
             ELSE LET old == CHOOSE r \in found : TRUE
                      row == [old EXCEPT
                                !.title = IF input.title # None THEN input.title[1] ELSE @,
                                !.description = IF input.description # None
                                                THEN input.description ELSE @,
                                !.priority = IF input.priority # None THEN input.priority[1] ELSE @,
                                !.category = IF input.category # None THEN input.category ELSE @,
                                !.due_date = IF input.due_date # None
                                             THEN Some(ReplaceNaive(input.due_date[1])) ELSE @,
                                !.updated_at = get_utc_now(t)]
                      task_dict == [id |-> row.id,
                                    title |-> row.title,
                                    description |-> row.description,
                                    priority |-> row.priority,
                                    category |-> row.category,
                                    completed |-> row.completed,
                                    due_date |-> OptIso(row.due_date),
                                    created_at |-> IsoFormat(row.created_at),
                                    updated_at |-> IsoFormat(row.updated_at),
                                    user_id |-> row.user_id]
                  IN  Outcome(TaskOutput(TRUE, Some(task_dict), None),
                              (store \ {old}) \cup {row}, nextId)

\* mutant: the base query forgets the owner
StatusFilterAnyUser(store, user_id, status) ==
    {r \in store :
        /\ (status = "complete" => r.completed)
        /\ (status = "incomplete" => ~r.completed)}

\* mutant: the status is not applied to the query
StatusFilter_any_status(store, user_id, status) == {r \in store : r.user_id = user_id}

\* the base query with the status filter applied
StatusFilter(store, user_id, status) ==
    {r \in store :
        /\ r.user_id = user_id
        /\ (status = "complete" => r.completed)
        /\ (status = "incomplete" => ~r.completed)}

\* the orders ORDER BY created_at DESC may return the rows in
OrderByCreatedDesc(rows) ==
    {q \in [1..Cardinality(rows) -> rows] :
        /\ \A i, j \in 1..Cardinality(rows) : i # j => q[i] # q[j]
        /\ \A i, j \in 1..Cardinality(rows) : i < j => q[i].created_at.wall >= q[j].created_at.wall}

\* mutant: the page always starts at the first row
Page_from_start(q, offset, limit) ==
    [i \in 1..(IF Len(q) < limit THEN Len(q) ELSE limit) |-> q[i]]

\* OFFSET offset LIMIT limit
Page(q, offset, limit) ==
    [i \in 1..(IF Len(q) - offset < 0 THEN 0
               ELSE IF Len(q) - offset < limit THEN Len(q) - offset ELSE limit) |-> q[offset + i]]

ListTaskDict(row) ==
    [id |-> row.id,
     title |-> row.title,
     description |-> row.description,
     completed |-> row.completed,
     due_date |-> OptIso(row.due_date),
     created_at |-> IsoFormat(row.created_at),
     updated_at |-> IsoFormat(row.updated_at)]

\* list_tasks: one outcome for each order the database may return equal timestamps in
list_tasks(input, store, nextId, ctx, t) ==
    IF Unauthenticated(ctx)
    THEN {Outcome(ListTasksOutput(FALSE, None, None, None, None, AuthRequiredError), store, nextId)}
    ELSE LET matching == StatusFilter(store, ctx.user_id[1], input.status)
             total_count == Cardinality(matching)
         IN  {Outcome(ListTasksOutput(TRUE,
                                      Some([i \in 1..Len(Page(q, input.offset, input.limit)) |->
                                               ListTaskDict(Page(q, input.offset, input.limit)[i])]),
                                      Some(total_count), Some(input.offset), Some(input.limit), None),
                      store, nextId) : q \in OrderByCreatedDesc(matching)}

(***************************************************************************)
(* The registry and the wrappers the application registers in it.          *)
(***************************************************************************)
Returned(o) == [raised |-> FALSE, res |-> o.res, tasks |-> o.tasks, nextTaskId |-> o.nextTaskId]

Raised(exc, store, nextId) == [raised |-> TRUE, exc |-> exc, tasks |-> store, nextTaskId |-> nextId]

\* the dict a wrapper or the registry builds itself: {"success": False, "error": ...}
ErrorDict(error) == [success |-> FALSE, error |-> error]

SessionError == <<"could not open a database session">>

\* mutant: a user_id among the arguments replaces the one of the context
tool_wrapper_trusts_arguments(h, arguments, context, store, nextId, t, fault) ==
    LET errors == CASE h = "add_task" -> AddTaskErrors(arguments, t)
                    [] h = "list_tasks" -> ListTasksErrors(arguments)
                    [] h = "complete_task" -> CompleteTaskErrors(arguments)
                    [] h = "delete_task" -> DeleteTaskErrors(arguments)
                    [] h = "update_task" -> UpdateTaskErrors(arguments, t)
        ctx == IF Has(arguments, "user_id")
               THEN [context EXCEPT !.user_id = arguments.user_id] ELSE context
    IN  IF errors # << >>
        THEN {Returned(Outcome(ErrorDict(<<"Invalid input: ">> \o errors), store, nextId))}
        ELSE IF fault
        THEN {Raised(SessionError, store, nextId)}
        ELSE CASE h = "add_task" ->
                    {Returned(add_task(AddTaskInput(arguments, t), store, nextId, ctx, t))}
               [] h = "list_tasks" ->
                    {Returned(o) : o \in list_tasks(ListTasksInput(arguments), store, nextId, ctx, t)}
               [] h = "complete_task" ->
                    {Returned(complete_task(CompleteTaskInput(arguments), store, nextId, ctx, t))}
               [] h = "delete_task" ->
                    {Returned(delete_task(DeleteTaskInput(arguments), store, nextId, ctx, t))}
               [] h = "update_task" ->
                    {Returned(update_task(UpdateTaskInput(arguments, t), store, nextId, ctx, t))}

\* make_wrapper(h, schema).tool_wrapper: validate, open a session, run the handler.
\* fault: get_db() raises instead of yielding a session.
tool_wrapper(h, arguments, context, store, nextId, t, fault) ==
    LET errors == CASE h = "add_task" -> AddTaskErrors(arguments, t)
                    [] h = "list_tasks" -> ListTasksErrors(arguments)
                    [] h = "complete_task" -> CompleteTaskErrors(arguments)
                    [] h = "delete_task" -> DeleteTaskErrors(arguments)
                    [] h = "update_task" -> UpdateTaskErrors(arguments, t)
    IN  IF errors # << >>
        THEN {Returned(Outcome(ErrorDict(<<"Invalid input: ">> \o errors), store, nextId))}
        ELSE IF fault
        THEN {Raised(SessionError, store, nextId)}
        ELSE CASE h = "add_task" ->
                    {Returned(add_task(AddTaskInput(arguments, t), store, nextId, context, t))}
               [] h = "list_tasks" ->
                    {Returned(o) : o \in list_tasks(ListTasksInput(arguments), store, nextId, context, t)}
               [] h = "complete_task" ->
                    {Returned(complete_task(CompleteTaskInput(arguments), store, nextId, context, t))}
               [] h = "delete_task" ->
                    {Returned(delete_task(DeleteTaskInput(arguments), store, nextId, context, t))}
               [] h = "update_task" ->
                    {Returned(update_task(UpdateTaskInput(arguments, t), store, nextId, context, t))}

ToolNames == <<"add_task", "list_tasks", "complete_task", "delete_task", "update_task">>

\* mutant: a name already present keeps the handler it has
register_tool_keeps_first(reg, name, handler) ==
    IF \E i \in 1..Len(reg) : reg[i].name = name
    THEN reg
    ELSE Append(reg, [name |-> name, handler |-> handler])

\* register_tool: a name already present is overwritten in place
register_tool(reg, name, handler) ==
    IF \E i \in 1..Len(reg) : reg[i].name = name
    THEN [i \in 1..Len(reg) |-> IF reg[i].name = name
                                 THEN [name |-> name, handler |-> handler] ELSE reg[i]]
    ELSE Append(reg, [name |-> name, handler |-> handler])

\* lifespan: the five tools registered at start-up, each behind its wrapper
RECURSIVE RegisterAll(_, _)
RegisterAll(reg, names) ==
    IF names = << >> THEN reg
    ELSE RegisterAll(register_tool(reg, Head(names), Head(names)), Tail(names))

lifespan == RegisterAll(<< >>, ToolNames)

\* list_tool_names: the keys of the dict, in insertion order
list_tool_names(reg) == [i \in 1..Len(reg) |-> reg[i].name]

tool_count(reg) == Len(reg)

\* get_tool: the entry registered under the name, if any
get_tool(reg, name) ==
    IF \E i \in 1..Len(reg) : reg[i].name = name
    THEN Some(reg[CHOOSE i \in 1..Len(reg) : reg[i].name = name])
    ELSE None

\* mutant: the handler is awaited outside the try block
execute_tool_no_try(reg, tool_name, arguments, context, store, nextId, t, fault) ==
    LET tool == get_tool(reg, tool_name)
    IN  IF tool = None
        THEN {Returned(Outcome(ErrorDict(<<"Tool '", tool_name, "' not found">>), store, nextId))}
        ELSE tool_wrapper(tool[1].handler, arguments, context, store, nextId, t, fault)

\* execute_tool: an unknown name and a raising handler both become an error dict
execute_tool(reg, tool_name, arguments, context, store, nextId, t, fault) ==
    LET tool == get_tool(reg, tool_name)
    IN  IF tool = None
        THEN {Returned(Outcome(ErrorDict(<<"Tool '", tool_name, "' not found">>), store, nextId))}
        ELSE {IF w.raised
              THEN Returned(Outcome(ErrorDict(<<"Tool execution failed: ">> \o w.exc),
                                    w.tasks, w.nextTaskId))
              ELSE w :
                w \in tool_wrapper(tool[1].handler, arguments, context, store, nextId, t, fault)}

(***************************************************************************)
(* The rate limiter of the chat endpoint.                                  *)
(***************************************************************************)
BusinessException(message, error_code, status_code) ==
    [kind |-> "BusinessException", message |-> message, error_code |-> error_code,
     status_code |-> status_code]

HTTPException(status_code, detail) ==
    [kind |-> "HTTPException", message |-> detail, error_code |-> "", status_code |-> status_code]

RateLimitExceeded ==
    BusinessException("Rate limit exceeded. Please try again after a minute.",
                      "RATE_LIMIT_EXCEEDED", 429)

EmptyMessage ==
    BusinessException("Message content cannot be empty or just whitespace", "INVALID_INPUT", 400)

InvalidConversationId == BusinessException("Invalid conversation ID format", "INVALID_ID", 400)

ConversationNotFound == HTTPException(404, "Conversation not found or access denied")

AgentTimeout ==
    BusinessException("The AI assistant is taking too long to respond. Please try again later.",
                      "AGENT_TIMEOUT", 504)

AgentFailure ==
    BusinessException("The AI assistant encountered an error. Please try a simpler request.",
                      "AGENT_FAILURE", 500)

ServerError ==
    BusinessException("An internal error occurred. Our team has been notified.",
                      "SERVER_ERROR", 500)

RATE_LIMIT_PER_MINUTE == 30
RATE_WINDOW_SECONDS == 60

\* the empty dict
EmptyDict == [u \in {} |-> << >>]

\* the timestamps younger than one minute, in order
RECURSIVE Recent(_, _)
Recent(stamps, t) ==
    IF stamps = << >> THEN << >>
    ELSE IF t - Head(stamps) < RATE_WINDOW_SECONDS
         THEN <<Head(stamps)>> \o Recent(Tail(stamps), t)
         ELSE Recent(Tail(stamps), t)

\* mutant: the ceiling is compared with > instead of >=
check_rate_limit_one_more(limits, user_id, t) ==
    IF user_id \notin DOMAIN limits
    THEN [raised |-> FALSE, exc |-> None,
          limits |-> [u \in DOMAIN limits \cup {user_id} |->
                         IF u = user_id THEN <<t>> ELSE limits[u]]]
    ELSE LET kept == Recent(limits[user_id], t)
         IN  IF Len(kept) > RATE_LIMIT_PER_MINUTE
             THEN [raised |-> TRUE, exc |-> Some(RateLimitExceeded),
                   limits |-> [limits EXCEPT ![user_id] = kept]]
             ELSE [raised |-> FALSE, exc |-> None,
                   limits |-> [limits EXCEPT ![user_id] = Append(kept, t)]]

\* mutant: the timestamp is appended before the ceiling is checked
check_rate_limit_records_rejected(limits, user_id, t) ==
    IF user_id \notin DOMAIN limits
    THEN [raised |-> FALSE, exc |-> None,
          limits |-> [u \in DOMAIN limits \cup {user_id} |->
                         IF u = user_id THEN <<t>> ELSE limits[u]]]
    ELSE LET kept == Recent(limits[user_id], t)
         IN  IF Len(kept) >= RATE_LIMIT_PER_MINUTE
             THEN [raised |-> TRUE, exc |-> Some(RateLimitExceeded),
                   limits |-> [limits EXCEPT ![user_id] = Append(kept, t)]]
             ELSE [raised |-> FALSE, exc |-> None,
                   limits |-> [limits EXCEPT ![user_id] = Append(kept, t)]]

\* mutant: the ceiling is checked on the window as it was before the requests of this
\* instant were recorded
check_rate_limit_stale_window(limits, user_id, t) ==
    IF user_id \notin DOMAIN limits
    THEN [raised |-> FALSE, exc |-> None,
          limits |-> [u \in DOMAIN limits \cup {user_id} |->
                         IF u = user_id THEN <<t>> ELSE limits[u]]]
    ELSE LET kept == Recent(limits[user_id], t)
             seen == SelectSeq(kept, LAMBDA s : s < t)
         IN  IF Len(seen) >= RATE_LIMIT_PER_MINUTE
             THEN [raised |-> TRUE, exc |-> Some(RateLimitExceeded),
                   limits |-> [limits EXCEPT ![user_id] = kept]]
             ELSE [raised |-> FALSE, exc |-> None,
                   limits |-> [limits EXCEPT ![user_id] = Append(kept, t)]]

\* check_rate_limit: the dict it leaves, and whether it raised RATE_LIMIT_EXCEEDED
check_rate_limit(limits, user_id, t) ==
    IF user_id \notin DOMAIN limits
    THEN [raised |-> FALSE, exc |-> None,
          limits |-> [u \in DOMAIN limits \cup {user_id} |->
                         IF u = user_id THEN <<t>> ELSE limits[u]]]
    ELSE LET kept == Recent(limits[user_id], t)
         IN  IF Len(kept) >= RATE_LIMIT_PER_MINUTE
             THEN [raised |-> TRUE, exc |-> Some(RateLimitExceeded),
                   limits |-> [limits EXCEPT ![user_id] = kept]]
             ELSE [raised |-> FALSE, exc |-> None,
                   limits |-> [limits EXCEPT ![user_id] = Append(kept, t)]]

(***************************************************************************)
(* The agent turn controller (agent.py get_agent_response) and the chat    *)
(* endpoint (routes/chat.py send_chat_message): values and pure steps.     *)
(***************************************************************************)
AGENT_TIMEOUT_SECONDS == 30
HISTORY_LIMIT == 10
CONVERSATION_TITLE_MAX == 200

\* Python truth of an Optional string: None and "" are false
Truthy(s) == s # None /\ StrLen(s[1]) > 0

\* int(text): the integer a decimal literal denotes, None for a ValueError
ParseInt(s) ==
    IF s.core \in {"1", "2", "3"} /\ s.n = 1
    THEN Some(CHOOSE i \in 1..3 : ToString(i) = s.core)
    ELSE None

\* mutant: the title is the whole message
ConversationTitle_whole(message_content) == message_content

\* the title of a new conversation, cut to 200 characters
ConversationTitle(message_content) ==
    IF StrLen(message_content) <= CONVERSATION_TITLE_MAX
    THEN message_content
    ELSE [message_content EXCEPT !.core = @ \o "[:197]...",
                                 !.n = (CONVERSATION_TITLE_MAX - 3) + 3]

Conversation(id, user_id, title, t) ==
    [id |-> id, user_id |-> user_id, title |-> title,
     created_at |-> get_utc_now(t), updated_at |-> get_utc_now(t)]

\* a Message row; turn names the request that wrote it (history, not a column)
Message(conversation_id, role, content, tool_calls, t, turn) ==
    [id |-> 0, conversation_id |-> conversation_id, role |-> role, content |-> content,
     tool_calls |-> tool_calls, created_at |-> get_utc_now(t), turn |-> turn]

\* the orders in which ORDER BY created_at DESC may return the rows
RECURSIVE MessagesByCreatedDesc(_)
MessagesByCreatedDesc(rows) ==
    IF rows = {} THEN {<< >>}
    ELSE UNION {{<<m>> \o q : q \in MessagesByCreatedDesc(rows \ {m})}
                : m \in {x \in rows : \A y \in rows :
                                          x.created_at.wall >= y.created_at.wall}}

Reverse(q) == [i \in 1..Len(q) |-> q[Len(q) + 1 - i]]

\* mutant: the window is the first 10 messages of the conversation
LoadHistory_oldest(msgs, conversation_id) ==
    {LET chron == Reverse(q)
         first == SubSeq(chron, 1, IF Len(q) < HISTORY_LIMIT THEN Len(q) ELSE HISTORY_LIMIT)
     IN  [i \in 1..Len(first) |->
             [role |-> first[i].role,
              content |-> IF Truthy(first[i].content) THEN first[i].content
                          ELSE Some(Str(0, "", 0, 0))]]
     : q \in MessagesByCreatedDesc({m \in msgs : m.conversation_id = conversation_id})}

\* the context window: the last 10 messages, oldest first, in OpenAI format
LoadHistory(msgs, conversation_id) ==
    {LET last == SubSeq(q, 1, IF Len(q) < HISTORY_LIMIT THEN Len(q) ELSE HISTORY_LIMIT)
         chron == Reverse(last)
     IN  [i \in 1..Len(chron) |->
             [role |-> chron[i].role,
              content |-> IF Truthy(chron[i].content) THEN chron[i].content
                          ELSE Some(Str(0, "", 0, 0))]]
     : q \in MessagesByCreatedDesc({m \in msgs : m.conversation_id = conversation_id})}

SYSTEM_PROMPT == Str(0, "You are a helpful AI assistant ...", 34, 0)
FallbackReply == Str(0, "I'm here to help with your tasks!", 33, 0)
NotConfiguredReply ==
    Str(0, "I'm unable to process your request right now. Please try again later.", 70, 0)
ApologyReply ==
    Str(0, "I apologize, but I encountered an error processing your request. Please try again.",
        82, 0)

AgentResult(response, tool_calls, error) ==
    [response |-> response, tool_calls |-> tool_calls, error |-> error]

\* get_all_tools: one function definition per registered tool
get_all_tools(reg) == [i \in 1..Len(reg) |-> [type |-> "function", name |-> reg[i].name]]

\* the parameters of a chat.completions.create call
ApiCall(msgs, tools) == [messages |-> msgs, tools |-> tools]

ChatMessage(role, content) == [role |-> role, content |-> content]

\* the first call: system prompt, history, user message; the catalogue if not empty
FirstCall(reg, history, user_message) ==
    ApiCall(<<ChatMessage("system", Some(SYSTEM_PROMPT))>> \o history
               \o <<ChatMessage("user", Some(user_message))>>,
            IF get_all_tools(reg) # << >> THEN Some(get_all_tools(reg)) ELSE None)

\* mutant: text that does not parse is read as a request to add "Buy milk"
json_loads_guesses(tool_call) ==
    IF tool_call.arguments = None THEN [f \in {"title"} |-> Some(Str(0, "Buy milk", 8, 0))]
    ELSE tool_call.arguments[1]

\* json.loads of a tool call's argument text; {} when the text does not parse
json_loads(tool_call) ==
    IF tool_call.arguments = None THEN [f \in {} |-> None] ELSE tool_call.arguments[1]

\* mutant: the second call offers the tools again
SecondCall_with_tools(first_call, assistant_message, tool_calls_data) ==
    ApiCall(first_call.messages
               \o <<[role |-> "assistant", content |-> assistant_message.content,
                     tool_calls |-> assistant_message.tool_calls]>>
               \o [i \in 1..Len(assistant_message.tool_calls) |->
                      [role |-> "tool", tool_call_id |-> assistant_message.tool_calls[i].id,
                       content |-> [json |-> tool_calls_data[i].result]]],
            first_call.tools)

\* the second call: the first call's messages, the assistant's tool requests
\* and one tool message per result; no tools parameter
SecondCall(first_call, assistant_message, tool_calls_data) ==
    ApiCall(first_call.messages
               \o <<[role |-> "assistant", content |-> assistant_message.content,
                     tool_calls |-> assistant_message.tool_calls]>>
               \o [i \in 1..Len(assistant_message.tool_calls) |->
                      [role |-> "tool", tool_call_id |-> assistant_message.tool_calls[i].id,
                       content |-> [json |-> tool_calls_data[i].result]]],
            None)

\* final_message or "I'm here to help with your tasks!"
FinalResult(final_message, tool_calls_data) ==
    AgentResult(IF Truthy(final_message) THEN final_message[1] ELSE FallbackReply,
                tool_calls_data, None)

\* mutant: the apology is returned without the error indicator
ErrorResult_unflagged(e) == AgentResult(ApologyReply, << >>, None)

\* except Exception as e: the apology, no tool calls, str(e)
ErrorResult(e) == AgentResult(ApologyReply, << >>, Some(e))

NotConfiguredResult == AgentResult(NotConfiguredReply, << >>, Some(<<"LLM API key not configured">>))

ChatResponse(response, conversation_id, tool_calls) ==
    [response |-> response, conversation_id |-> ToString(conversation_id),
     tool_calls |-> tool_calls]

(***************************************************************************)
(* The inputs the dispatches are drawn from.                               *)
(***************************************************************************)
BuyMilk == Str(1, "Buy milk", 8, 1)
CallMom == Str(0, "Call mom", 8, 0)
TooLongTitle == Str(0, "x", TITLE_MAX_LENGTH + 1, 0)
Notes == Str(0, "2 litres", 8, 0)

NoAddFields == [title |-> None, description |-> None, due_date |-> None]

AddArgs(t) ==
    {NoAddFields,
     [NoAddFields EXCEPT !.title = Some(BuyMilk)],
     [NoAddFields EXCEPT !.title = Some(TooLongTitle)],
     [NoAddFields EXCEPT !.title = Some(BuyMilk), !.description = Some(Notes),
                         !.due_date = Some(Naive(t + ClockStep))],
     [NoAddFields EXCEPT !.title = Some(BuyMilk), !.due_date = Some(Naive(t))]}

TaskIds == 1..(MaxTasks + 1)

CompleteArgs ==
    {[task_id |-> Some(i), completed |-> Some(c)] : i \in TaskIds, c \in BOOLEAN}
      \cup {[task_id |-> Some(1), completed |-> None], [task_id |-> None, completed |-> Some(TRUE)]}

DeleteArgs == {[task_id |-> id] : id \in {None} \cup {Some(i) : i \in TaskIds}}

NoFields == [title |-> None, description |-> None, priority |-> None, category |-> None,
             due_date |-> None]

UpdateFields(t) ==
    {NoFields,
     [NoFields EXCEPT !.title = Some(CallMom)],
     [NoFields EXCEPT !.priority = Some("HIGH"), !.category = Some("Work"),
                      !.due_date = Some(Naive(t + ClockStep))],
     [NoFields EXCEPT !.priority = Some("urgent")],
     [NoFields EXCEPT !.category = Some("chores")],
     [NoFields EXCEPT !.due_date = Some(Naive(t))]}

UpdateArgs(t) ==
    {[task_id |-> Some(i), title |-> f.title, description |-> f.description,
      priority |-> f.priority, category |-> f.category, due_date |-> f.due_date] :
        i \in TaskIds, f \in UpdateFields(t)}
      \cup {[task_id |-> None, title |-> Some(CallMom), description |-> None, priority |-> None,
             category |-> None, due_date |-> None]}

ListArgs ==
    {[status |-> st, limit |-> None, offset |-> None] :
        st \in {None, Some("complete"), Some("incomplete"), Some("done")}}
      \cup {[status |-> Some("all"), limit |-> li, offset |-> off] :
              li \in {Some(0), Some(1), Some(LIMIT_MAX + 1)}, off \in {None, Some(-1), Some(1)}}

\* arguments each tool accepts, used where the call is to fail for another reason
PlainArgs(tool_name, t) ==
    CASE tool_name = "add_task" -> [NoAddFields EXCEPT !.title = Some(BuyMilk)]
      [] tool_name = "list_tasks" -> [status |-> None, limit |-> None, offset |-> None]
      [] tool_name = "complete_task" -> [task_id |-> Some(1), completed |-> Some(TRUE)]
      [] tool_name = "delete_task" -> [task_id |-> Some(1)]
      [] tool_name = "update_task" ->
            [task_id |-> Some(1), title |-> Some(CallMom), description |-> None,
             priority |-> None, category |-> None, due_date |-> None]
      [] OTHER -> [task_id |-> Some(1)]

\* the execution context get_agent_response builds; tests also pass one with no user_id
Context(user_id, t) == [user_id |-> user_id, timestamp |-> t]

RegisteredNames == {ToolNames[i] : i \in 1..Len(ToolNames)}

DispatchNames == RegisteredNames \cup {"nonexistent"}

DispatchCall(tool_name, arguments, context, fault) ==
    [tool_name |-> tool_name, arguments |-> arguments, context |-> context, fault |-> fault]

\* every argument set by every authenticated user; one call per tool with no user id
\* in the context; one call per tool whose database session cannot be opened
DispatchInputs(t) ==
    {DispatchCall(n, a, Context(Some(u), t), FALSE) :
        n \in {"add_task"}, a \in AddArgs(t), u \in Users}
      \cup {DispatchCall(n, a, Context(Some(u), t), FALSE) :
              n \in {"list_tasks"}, a \in ListArgs, u \in Users}
      \cup {DispatchCall(n, a, Context(Some(u), t), FALSE) :
              n \in {"complete_task"}, a \in CompleteArgs, u \in Users}
      \cup {DispatchCall(n, a, Context(Some(u), t), FALSE) :
              n \in {"delete_task"}, a \in DeleteArgs, u \in Users}
      \cup {DispatchCall(n, a, Context(Some(u), t), FALSE) :
              n \in {"update_task"}, a \in UpdateArgs(t), u \in Users}
      \cup {DispatchCall(n, PlainArgs(n, t), Context(None, t), FALSE) : n \in DispatchNames}
      \cup {DispatchCall(n, PlainArgs(n, t), Context(Some(1), t), f) :
              n \in DispatchNames, f \in BOOLEAN}

\* a turn that has not begun
IdleTurn ==
    [pc |-> "idle", user_id |-> 0, message |-> Str(0, "", 0, 0), conversation_id |-> None,
     conv_id |-> 0, new_conv |-> None, user_msg |-> None, history |-> << >>, started |-> 0,
     llm_calls |-> << >>, first |-> None, audit |-> << >>, second |-> None,
     agent |-> None, trace |-> << >>, outcome |-> None]

Hello == Str(0, "Add a task to buy milk", 22, 1)
LongMessage == Str(0, "x", CONVERSATION_TITLE_MAX + 1, 0)
Blank == Str(3, "", 0, 0)

ChatRequest(user_id, message, conversation_id) ==
    [user_id |-> user_id, message |-> message, conversation_id |-> conversation_id]

\* request bodies that pass the ChatRequest schema, from authenticated users
ChatRequests ==
    {ChatRequest(1, Hello, None), ChatRequest(2, LongMessage, None)}
    \cup {ChatRequest(u, Hello, Some(Str(0, "1", 1, 0))) : u \in Users}
    \cup {ChatRequest(1, Blank, None),
          ChatRequest(1, Hello, Some(Str(0, "abc", 3, 0))),
          ChatRequest(1, Hello, Some(Str(0, "", 0, 0)))}

\* what a chat.completions.create call may give back
Completion(content, tool_calls) == [content |-> content, tool_calls |-> tool_calls, error |-> None]
CompletionError(e) == [content |-> None, tool_calls |-> << >>, error |-> Some(e)]

ToolRequest(id, name, arguments) == [id |-> id, name |-> name, arguments |-> arguments]

Reply == Str(0, "Done.", 5, 0)
UpstreamError == <<"Connection error.">>

AddMilk == [title |-> Some(BuyMilk), description |-> None, due_date |-> None]

\* the requests of a first response; arguments None is text json.loads rejects
ToolRequestLists(t) ==
    {<<ToolRequest("call_1", "add_task", Some(AddMilk))>>,
     <<ToolRequest("call_1", "add_task", None)>>,
     <<ToolRequest("call_1", "add_task", Some(AddMilk)),
       ToolRequest("call_2", "complete_task",
                   Some([task_id |-> Some(1), completed |-> Some(TRUE)]))>>,
     <<ToolRequest("call_1", "delete_task", Some([task_id |-> Some(1)]))>>,
     <<ToolRequest("call_1", "list_tasks", None), ToolRequest("call_2", "complete_task", None),
       ToolRequest("call_3", "delete_task", None), ToolRequest("call_4", "update_task", None)>>}

FirstResponses(t) ==
    {Completion(Some(Reply), << >>), Completion(None, << >>), CompletionError(UpstreamError)}
    \cup {Completion(None, reqs) : reqs \in ToolRequestLists(t)}

SecondResponses ==
    {Completion(Some(Reply), << >>),
     Completion(Some(Reply), <<ToolRequest("call_3", "delete_task", Some([task_id |-> Some(1)]))>>),
     CompletionError(UpstreamError)}

NoCall == None
NoResult == None

(***************************************************************************)
(* Tool dispatch on its own: any caller, any tool, any arguments.          *)
(***************************************************************************)
MaxCalls == 3         \* dispatches made in one behaviour
MaxTurns == 1         \* chat requests made in one behaviour
ChatMaxClock == 1     \* clock ticks taken while turns run

TurnIds == 1..MaxTurns

\* the admissions of a history that are less than 60 seconds old at time t
Forget(log, t) == SelectSeq(log, LAMBDA s : t - s < 60)

toolState == <<registry, tasks, nextTaskId, calls, call, result>>
rateState == <<user_rate_limit, admittedLog, rateCheck>>
chatState ==
    <<openai_client, conversations, messages, nextConversationId, nextMessageId, turns, reply>>

ChatStateInit ==
    /\ openai_client = TRUE
    /\ conversations = {}
    /\ messages = {}
    /\ nextConversationId = 1
    /\ nextMessageId = 1
    /\ turns = [r \in TurnIds |-> IdleTurn]
    /\ reply = None

RateStateInit ==
    /\ user_rate_limit = EmptyDict
    /\ admittedLog = [u \in Users |-> << >>]
    /\ rateCheck = None

ToolStateInit ==
    /\ registry = lifespan
    /\ now = 0
    /\ tasks = {}
    /\ nextTaskId = 1
    /\ calls = 0
    /\ call = NoCall
    /\ result = NoResult

ToolInit ==
    /\ ToolStateInit
    /\ RateStateInit
    /\ ChatStateInit

\* the result of a dispatch as the caller sees it: a dict, or an exception
CallResult(o) ==
    IF o.raised THEN [raised |-> TRUE, exc |-> o.exc] ELSE [raised |-> FALSE, res |-> o.res]

\* result = await mcp_registry.execute_tool(tool_name, arguments, context)
Dispatch(c) ==
    /\ call = NoCall
    /\ calls < MaxCalls
    /\ c.tool_name = "add_task" => nextTaskId <= MaxTasks
    /\ \E o \in execute_tool(registry, c.tool_name, c.arguments, c.context,
                             tasks, nextTaskId, now, c.fault) :
        /\ tasks' = o.tasks
        /\ nextTaskId' = o.nextTaskId
        /\ result' = Some(CallResult(o))
    /\ call' = Some(c)
    /\ calls' = calls + 1
    /\ UNCHANGED <<registry, now, rateState, chatState>>

\* the caller takes the result
ToolReturn ==
    /\ call # NoCall
    /\ call' = NoCall
    /\ result' = NoResult
    /\ UNCHANGED <<registry, now, tasks, nextTaskId, calls, rateState, chatState>>

\* time passes between calls
ToolTick ==
    /\ call = NoCall
    /\ now < ToolMaxClock * ClockStep
    /\ now' = now + ClockStep
    /\ UNCHANGED <<registry, tasks, nextTaskId, calls, call, result, rateState, chatState>>

ToolNext ==
    \/ \E c \in DispatchInputs(now) : Dispatch(c)
    \/ ToolReturn
    \/ ToolTick

(***************************************************************************)
(* The rate limiter on its own: requests of one user as time passes.       *)
(***************************************************************************)
RateMaxClock == 3     \* clock ticks taken while the limiter is exercised

RateUsers == {1}

RateInit ==
    /\ ToolStateInit
    /\ RateStateInit
    /\ ChatStateInit

\* a request of the user reaches the endpoint: check_rate_limit(current_user.id)
CheckRateLimit(user_id) ==
    LET r == check_rate_limit(user_rate_limit, user_id, now)
    IN  /\ user_rate_limit' = r.limits
        /\ rateCheck' = Some([user_id |-> user_id, raised |-> r.raised])
        /\ admittedLog' = IF r.raised THEN admittedLog
                          ELSE [admittedLog EXCEPT ![user_id] = Append(@, now)]
        /\ UNCHANGED <<now, toolState, chatState>>

\* time passes; the history forgets admissions that are a minute old
RateTick ==
    /\ now < RateMaxClock * ClockStep
    /\ now' = now + ClockStep
    /\ admittedLog' = [u \in Users |-> Forget(admittedLog[u], now')]
    /\ rateCheck' = None
    /\ UNCHANGED <<user_rate_limit, toolState, chatState>>

RateNext ==
    \/ \E user_id \in RateUsers : CheckRateLimit(user_id)
    \/ RateTick

(***************************************************************************)
(* Chat turns: requests to POST /chat, each running send_chat_message and, *)
(* inside it, get_agent_response step by step.                             *)
(***************************************************************************)
AgentStates == {"first_call", "tools", "second_call"}

\* the outcome the caller gets
Failed(exc) == [ok |-> FALSE, exc |-> Some(exc), response |-> None]
Replied(response) == [ok |-> TRUE, exc |-> None, response |-> Some(response)]

\* except ...: await db.rollback(); raise -- the session's pending rows are dropped
Rollback(turn, exc) ==
    [turn EXCEPT !.pc = "done", !.new_conv = None, !.user_msg = None,
                 !.outcome = Some(Failed(exc))]

\* the agent call begins: no client, or the first request to the engine
StartAgent(turn, reg, client, t) ==
    IF ~client
    THEN Rollback(turn, AgentFailure)
    ELSE [turn EXCEPT !.pc = "first_call", !.started = t,
                      !.llm_calls = <<FirstCall(reg, turn.history, turn.message)>>,
                      !.trace = <<"call 1">>]

\* mutant: the conversation is looked up by its id alone
EnterTurn_any_owner(r, req, raised, convs, msgs, nextCid, reg, client, t) ==
    LET message_content == Strip(req.message)
        turn == [IdleTurn EXCEPT !.user_id = req.user_id, !.message = message_content,
                                 !.conversation_id = req.conversation_id]
        user_message(conversation_id) ==
            Some(Message(conversation_id, "user", Some(message_content), None, t, r))
    IN  IF raised # None
        THEN {[turn |-> Rollback(turn, raised[1]), nextConversationId |-> nextCid]}
        ELSE IF StrLen(message_content) = 0
        THEN {[turn |-> Rollback(turn, EmptyMessage), nextConversationId |-> nextCid]}
        ELSE IF Truthy(req.conversation_id)
        THEN LET conv_id == ParseInt(req.conversation_id[1])
                 found == IF conv_id = None THEN {}
                          ELSE {c \in convs : c.id = conv_id[1]}
             IN  IF conv_id = None
                 THEN {[turn |-> Rollback(turn, InvalidConversationId),
                        nextConversationId |-> nextCid]}
                 ELSE IF found = {}
                 THEN {[turn |-> Rollback(turn, ConversationNotFound),
                        nextConversationId |-> nextCid]}
                 ELSE {[turn |-> StartAgent([turn EXCEPT !.conv_id = conv_id[1],
                                                         !.history = h,
                                                         !.user_msg = user_message(conv_id[1])],
                                            reg, client, t),
                        nextConversationId |-> nextCid]
                       : h \in LoadHistory(msgs, conv_id[1])}
        ELSE {[turn |-> StartAgent([turn EXCEPT
                                       !.conv_id = nextCid,
                                       !.new_conv = Some(Conversation(nextCid, req.user_id,
                                                            ConversationTitle(message_content), t)),
                                       !.user_msg = user_message(nextCid)],
                                   reg, client, t),
               nextConversationId |-> nextCid + 1]}

\* steps 1 to 5 of send_chat_message and the start of step 6:
\* the turn records it may leave, each with the conversation key counter
EnterTurn(r, req, raised, convs, msgs, nextCid, reg, client, t) ==
    LET message_content == Strip(req.message)
        turn == [IdleTurn EXCEPT !.user_id = req.user_id, !.message = message_content,
                                 !.conversation_id = req.conversation_id]
        user_message(conversation_id) ==
            Some(Message(conversation_id, "user", Some(message_content), None, t, r))
    IN  IF raised # None
        THEN {[turn |-> Rollback(turn, raised[1]), nextConversationId |-> nextCid]}
        ELSE IF StrLen(message_content) = 0
        THEN {[turn |-> Rollback(turn, EmptyMessage), nextConversationId |-> nextCid]}
        ELSE IF Truthy(req.conversation_id)
        THEN LET conv_id == ParseInt(req.conversation_id[1])
                 found == IF conv_id = None THEN {}
                          ELSE {c \in convs : c.id = conv_id[1] /\ c.user_id = req.user_id}
             IN  IF conv_id = None
                 THEN {[turn |-> Rollback(turn, InvalidConversationId),
                        nextConversationId |-> nextCid]}
                 ELSE IF found = {}
                 THEN {[turn |-> Rollback(turn, ConversationNotFound),
                        nextConversationId |-> nextCid]}
                 ELSE {[turn |-> StartAgent([turn EXCEPT !.conv_id = conv_id[1],
                                                         !.history = h,
                                                         !.user_msg = user_message(conv_id[1])],
                                            reg, client, t),
                        nextConversationId |-> nextCid]
                       : h \in LoadHistory(msgs, conv_id[1])}
        ELSE {[turn |-> StartAgent([turn EXCEPT
                                       !.conv_id = nextCid,
                                       !.new_conv = Some(Conversation(nextCid, req.user_id,
                                                            ConversationTitle(message_content), t)),
                                       !.user_msg = user_message(nextCid)],
                                   reg, client, t),
               nextConversationId |-> nextCid + 1]}

\* mutant: the user message is committed before the agent's result is looked at
FinishTurn_commits_first(turn, agent_result, convs, msgs, nextMid, t, r, commitFails) ==
    LET held == convs \cup (IF turn.new_conv = None THEN {} ELSE {turn.new_conv[1]})
        saved == msgs \cup {[turn.user_msg[1] EXCEPT !.id = nextMid]}
    IN  IF agent_result.error # None
        THEN [turn |-> Rollback(turn, AgentFailure), conversations |-> held,
              messages |-> saved, nextMessageId |-> nextMid + 1]
        ELSE IF commitFails
        THEN [turn |-> Rollback(turn, ServerError), conversations |-> held,
              messages |-> saved, nextMessageId |-> nextMid + 1]
        ELSE [turn |-> [turn EXCEPT
                          !.pc = "done", !.new_conv = None, !.user_msg = None,
                          !.outcome = Some(Replied(ChatResponse(
                                          agent_result.response, turn.conv_id,
                                          agent_result.tool_calls)))],
              conversations |-> {IF c.id = turn.conv_id
                                 THEN [c EXCEPT !.updated_at = get_utc_now(t)] ELSE c
                                 : c \in held},
              messages |-> saved \cup
                  {[Message(turn.conv_id, "assistant", Some(agent_result.response),
                            IF agent_result.tool_calls # << >>
                            THEN Some([tools |-> agent_result.tool_calls]) ELSE None, t, r)
                      EXCEPT !.id = nextMid + 1]},
              nextMessageId |-> nextMid + 2]

\* steps 6 (after the agent returned) to 10: what the turn leaves in the
\* session's database and gives its caller
FinishTurn(turn, agent_result, convs, msgs, nextMid, t, r, commitFails) ==
    IF agent_result.error # None
    THEN [turn |-> Rollback(turn, AgentFailure), conversations |-> convs,
          messages |-> msgs, nextMessageId |-> nextMid]
    ELSE IF commitFails
    THEN [turn |-> Rollback(turn, ServerError), conversations |-> convs,
          messages |-> msgs, nextMessageId |-> nextMid]
    ELSE LET assistant == Message(turn.conv_id, "assistant", Some(agent_result.response),
                                  IF agent_result.tool_calls # << >>
                                  THEN Some([tools |-> agent_result.tool_calls]) ELSE None,
                                  t, r)
             held == convs \cup (IF turn.new_conv = None THEN {} ELSE {turn.new_conv[1]})
         IN  [turn |-> [turn EXCEPT
                          !.pc = "done", !.new_conv = None, !.user_msg = None,
                          !.outcome = Some(Replied(ChatResponse(
                                          agent_result.response, turn.conv_id,
                                          [i \in 1..Len(agent_result.tool_calls) |->
                                              [tool_name |-> agent_result.tool_calls[i].tool_name,
                                               result |-> agent_result.tool_calls[i].result]])))],
              conversations |-> {IF c.id = turn.conv_id
                                 THEN [c EXCEPT !.updated_at = get_utc_now(t)] ELSE c
                                 : c \in held},
              messages |-> msgs \cup {[turn.user_msg[1] EXCEPT !.id = nextMid],
                                      [assistant EXCEPT !.id = nextMid + 1]},
              nextMessageId |-> nextMid + 2]

\* the agent returned: the rest of send_chat_message runs to its end
Finish(r, turn, agent_result, commitFails) ==
    LET f == FinishTurn(turn, agent_result, conversations, messages, nextMessageId, now, r,
                        commitFails)
    IN  /\ turns' = [turns EXCEPT ![r] = [f.turn EXCEPT !.agent = Some(agent_result)]]
        /\ conversations' = f.conversations
        /\ messages' = f.messages
        /\ nextMessageId' = f.nextMessageId

\* no request is at its end, about to be answered
NoneEnding == \A q \in TurnIds : turns[q].pc # "done"

\* a request arrives: check_rate_limit, validation, conversation, user message
SendChatMessage(r, req) ==
    /\ NoneEnding
    /\ turns[r].pc = "idle"
    /\ \A q \in TurnIds : q < r => turns[q].pc # "idle"
    /\ LET rl == check_rate_limit(user_rate_limit, req.user_id, now)
       IN  /\ user_rate_limit' = rl.limits
           /\ rateCheck' = Some([user_id |-> req.user_id, raised |-> rl.raised])
           /\ admittedLog' = IF rl.raised THEN admittedLog
                             ELSE [admittedLog EXCEPT ![req.user_id] = Append(@, now)]
           /\ \E e \in EnterTurn(r, req, rl.exc, conversations, messages, nextConversationId,
                                 registry, openai_client, now) :
                 /\ turns' = [turns EXCEPT ![r] = e.turn]
                 /\ nextConversationId' = e.nextConversationId
    /\ UNCHANGED <<now, toolState, openai_client, reply, conversations, messages, nextMessageId>>

InTime(r) == now - turns[r].started <= AGENT_TIMEOUT_SECONDS

\* the first call returns (or raises)
FirstResponse(r, resp, commitFails) ==
    /\ NoneEnding
    /\ turns[r].pc = "first_call"
    /\ InTime(r)
    /\ LET turn == [turns[r] EXCEPT !.first = Some(resp), !.trace = Append(@, "return 1")]
       IN  IF resp.error # None
           THEN /\ ~commitFails
                /\ Finish(r, turn, ErrorResult(resp.error[1]), FALSE)
           ELSE IF resp.tool_calls = << >>
           THEN Finish(r, turn, FinalResult(resp.content, << >>), commitFails)
           ELSE /\ ~commitFails
                /\ turns' = [turns EXCEPT ![r] = [turn EXCEPT !.pc = "tools"]]
                /\ UNCHANGED <<conversations, messages, nextMessageId>>
    /\ UNCHANGED <<now, toolState, rateState, openai_client, reply, nextConversationId>>

\* mutant: the requested tools are dispatched last to first
ExecuteTool_reversed(r) ==
    /\ NoneEnding
    /\ turns[r].pc = "tools"
    /\ InTime(r)
    /\ LET turn == turns[r]
           assistant_message == turn.first[1]
           tool_call == assistant_message.tool_calls[
                           Len(assistant_message.tool_calls) - Len(turn.audit)]
           context == Context(Some(turn.user_id), now)
       IN  \E o \in execute_tool(registry, tool_call.name, json_loads(tool_call), context,
                                 tasks, nextTaskId, now, FALSE) :
              LET tool_calls_data ==
                      Append(turn.audit, [tool_name |-> tool_call.name, result |-> o.res])
                  more == Len(tool_calls_data) < Len(assistant_message.tool_calls)
              IN  /\ tasks' = o.tasks
                  /\ nextTaskId' = o.nextTaskId
                  /\ turns' = [turns EXCEPT ![r] =
                        IF more
                        THEN [turn EXCEPT !.audit = tool_calls_data,
                                          !.trace = Append(@, "dispatch")]
                        ELSE [turn EXCEPT !.audit = tool_calls_data,
                                          !.pc = "second_call",
                                          !.llm_calls = Append(@, SecondCall(turn.llm_calls[1],
                                                          assistant_message, tool_calls_data)),
                                          !.trace = @ \o <<"dispatch", "call 2">>]]
    /\ UNCHANGED <<now, registry, calls, call, result, rateState, openai_client, reply,
                   conversations, messages, nextConversationId, nextMessageId>>

\* the next requested tool is dispatched; after the last one the second call is sent
ExecuteTool(r) ==
    /\ NoneEnding
    /\ turns[r].pc = "tools"
    /\ InTime(r)
    /\ LET turn == turns[r]
           assistant_message == turn.first[1]
           tool_call == assistant_message.tool_calls[Len(turn.audit) + 1]
           context == Context(Some(turn.user_id), now)
       IN  \E o \in execute_tool(registry, tool_call.name, json_loads(tool_call), context,
                                 tasks, nextTaskId, now, FALSE) :
              LET tool_calls_data ==
                      Append(turn.audit, [tool_name |-> tool_call.name, result |-> o.res])
                  more == Len(tool_calls_data) < Len(assistant_message.tool_calls)
              IN  /\ tasks' = o.tasks
                  /\ nextTaskId' = o.nextTaskId
                  /\ turns' = [turns EXCEPT ![r] =
                        IF more
                        THEN [turn EXCEPT !.audit = tool_calls_data,
                                          !.trace = Append(@, "dispatch")]
                        ELSE [turn EXCEPT !.audit = tool_calls_data,
                                          !.pc = "second_call",
                                          !.llm_calls = Append(@, SecondCall(turn.llm_calls[1],
                                                          assistant_message, tool_calls_data)),
                                          !.trace = @ \o <<"dispatch", "call 2">>]]
    /\ UNCHANGED <<now, registry, calls, call, result, rateState, openai_client, reply,
                   conversations, messages, nextConversationId, nextMessageId>>

\* the second call returns (or raises)
SecondResponse(r, resp, commitFails) ==
    /\ NoneEnding
    /\ turns[r].pc = "second_call"
    /\ InTime(r)
    /\ LET turn == [turns[r] EXCEPT !.second = Some(resp), !.trace = Append(@, "return 2")]
       IN  IF resp.error # None
           THEN /\ ~commitFails
                /\ Finish(r, turn, ErrorResult(resp.error[1]), FALSE)
           ELSE Finish(r, turn, FinalResult(resp.content, turn.audit), commitFails)
    /\ UNCHANGED <<now, toolState, rateState, openai_client, reply, nextConversationId>>

\* mutant: on timeout the session is committed instead of rolled back
Timeout_commits(r) ==
    /\ NoneEnding
    /\ turns[r].pc \in AgentStates
    /\ now - turns[r].started >= AGENT_TIMEOUT_SECONDS
    /\ turns' = [turns EXCEPT ![r] = Rollback([@ EXCEPT !.trace = Append(@, "timeout")],
                                              AgentTimeout)]
    /\ conversations' = conversations
                           \cup (IF turns[r].new_conv = None THEN {} ELSE {turns[r].new_conv[1]})
    /\ messages' = messages \cup {[turns[r].user_msg[1] EXCEPT !.id = nextMessageId]}
    /\ nextMessageId' = nextMessageId + 1
    /\ UNCHANGED <<now, toolState, rateState, openai_client, reply, nextConversationId>>

\* mutant: the timeout's rollback also undoes the tasks the turn's tools added
Timeout_undoes_tools(r) ==
    /\ NoneEnding
    /\ turns[r].pc \in AgentStates
    /\ now - turns[r].started >= AGENT_TIMEOUT_SECONDS
    /\ turns' = [turns EXCEPT ![r] = Rollback([@ EXCEPT !.trace = Append(@, "timeout")],
                                              AgentTimeout)]
    /\ tasks' = {x \in tasks :
                    ~\E i \in 1..Len(turns[r].audit) :
                        /\ turns[r].audit[i].tool_name = "add_task"
                        /\ turns[r].audit[i].result.success
                        /\ turns[r].audit[i].result.task[1].id = x.id}
    /\ UNCHANGED <<now, registry, nextTaskId, calls, call, result, rateState, openai_client, reply,
                   conversations, messages, nextConversationId, nextMessageId>>

\* mutant: the deadline covers only the wait for the first response
Timeout_first_call_only(r) ==
    /\ NoneEnding
    /\ turns[r].pc = "first_call"
    /\ now - turns[r].started >= AGENT_TIMEOUT_SECONDS
    /\ turns' = [turns EXCEPT ![r] = Rollback([@ EXCEPT !.trace = Append(@, "timeout")],
                                              AgentTimeout)]
    /\ UNCHANGED <<now, toolState, rateState, openai_client, reply, conversations, messages,
                   nextConversationId, nextMessageId>>

\* asyncio.wait_for gives up after 30 seconds: the agent call is cancelled
Timeout(r) ==
    /\ NoneEnding
    /\ turns[r].pc \in AgentStates
    /\ now - turns[r].started >= AGENT_TIMEOUT_SECONDS
    /\ turns' = [turns EXCEPT ![r] = Rollback([@ EXCEPT !.trace = Append(@, "timeout")],
                                              AgentTimeout)]
    /\ UNCHANGED <<now, toolState, rateState, openai_client, reply, conversations, messages,
                   nextConversationId, nextMessageId>>

\* the response or the error goes to the caller and the request is over
Respond(r) ==
    /\ turns[r].pc = "done"
    /\ turns' = [turns EXCEPT ![r] = [IdleTurn EXCEPT !.pc = "closed"]]
    /\ UNCHANGED <<now, toolState, rateState, openai_client, reply, conversations, messages,
                   nextConversationId, nextMessageId>>

\* time passes, but not past the deadline of a running agent call
ChatTick ==
    /\ NoneEnding
    /\ now < ChatMaxClock * ClockStep
    /\ \A r \in TurnIds : turns[r].pc \in AgentStates
                             => now - turns[r].started < AGENT_TIMEOUT_SECONDS
    /\ now' = now + ClockStep
    /\ admittedLog' = [u \in Users |-> Forget(admittedLog[u], now')]
    /\ rateCheck' = None
    /\ UNCHANGED <<user_rate_limit, toolState, chatState>>

ChatNext ==
    \/ \E r \in TurnIds, req \in ChatRequests : SendChatMessage(r, req)
    \/ \E r \in TurnIds, resp \in FirstResponses(now), commitFails \in BOOLEAN :
          FirstResponse(r, resp, commitFails)
    \/ \E r \in TurnIds : ExecuteTool(r)
    \/ \E r \in TurnIds, resp \in SecondResponses, commitFails \in BOOLEAN :
          SecondResponse(r, resp, commitFails)
    \/ \E r \in TurnIds : Timeout(r)
    \/ \E r \in TurnIds : Respond(r)
    \/ ChatTick

\* An earlier request of user 1, at time 0, that opened a conversation and
\* was answered directly: what send_chat_message left of it.
EarlierTurn ==
    LET e == CHOOSE x \in EnterTurn(0, ChatRequest(1, Hello, None), None, {}, {}, 1,
                                    lifespan, TRUE, 0) : TRUE
    IN  [nextConversationId |-> e.nextConversationId,
         db |-> FinishTurn(e.turn, FinalResult(Some(Reply), << >>), {}, {}, 1, 0, 0, FALSE)]

\* the requests of user 1 the limiter holds after that turn: it alone, or it and
\* 29 requests refused for a blank message (which leave nothing else behind)
EarlierRequests == {1, RATE_LIMIT_PER_MINUTE}

\* the service has just started, or it has served the earlier turn
ChatInit ==
    /\ ToolStateInit
    /\ rateCheck = None
    /\ turns = [r \in TurnIds |-> IdleTurn]
    /\ reply = None
    /\ \/ /\ openai_client \in BOOLEAN
          /\ user_rate_limit = EmptyDict
          /\ admittedLog = [u \in Users |-> << >>]
          /\ conversations = {}
          /\ messages = {}
          /\ nextConversationId = 1
          /\ nextMessageId = 1
       \/ /\ openai_client = TRUE
          /\ \E n \in EarlierRequests :
                /\ user_rate_limit = [u \in {1} |-> [i \in 1..n |-> 0]]
                /\ admittedLog = [u \in Users |-> IF u = 1 THEN [i \in 1..n |-> 0] ELSE << >>]
          /\ conversations = EarlierTurn.db.conversations
          /\ messages = EarlierTurn.db.messages
          /\ nextConversationId = EarlierTurn.nextConversationId
          /\ nextMessageId = EarlierTurn.db.nextMessageId

vars == <<registry, now, tasks, nextTaskId, calls, call, result, rateState, chatState>>

SpecTools == ToolInit /\ [][ToolNext]_vars

SpecRate == RateInit /\ [][RateNext]_vars

SpecChat == ChatInit /\ [][ChatNext]_vars

(***************************************************************************)
(* Properties of tool dispatch.                                            *)
(***************************************************************************)
\* the step is a dispatch: execute_tool was called and returned
IsDispatch == call = NoCall /\ call' # NoCall

\* the call addresses a task by id
AddressesTask(c) ==
    /\ c.tool_name \in {"complete_task", "delete_task", "update_task"}
    /\ c.arguments.task_id # None

\* the rows of another user the call addresses
ForeignRows(c, store) ==
    IF AddressesTask(c) /\ ~Unauthenticated(c.context)
    THEN {r \in store : r.id = c.arguments.task_id[1] /\ r.user_id # c.context.user_id[1]}
    ELSE {}

\* the call gets as far as the handler's lookup of the task: its arguments pass the schema,
\* a session is opened and, for update_task, at least one field is supplied
ReachesLookup(c, t) ==
    /\ AddressesTask(c)
    /\ ~Unauthenticated(c.context)
    /\ ~c.fault
    /\ c.tool_name = "complete_task" => CompleteTaskErrors(c.arguments) = << >>
    /\ c.tool_name = "update_task" =>
          UpdateTaskErrors(c.arguments, t) = << >> /\ ~NoUpdateField(UpdateTaskInput(c.arguments, t))

\* C1: a complete_task, delete_task or update_task call that addresses a task of another
\* user fails, with the very result the same call gets when that task does not exist
\* ('Task <id> not found or access denied' whenever the call gets as far as the lookup),
\* and the task table, the addressed task's completed flag included, is left as it was.
C1_ForeignTaskLikeMissing ==
    [][(IsDispatch /\ ForeignRows(call'[1], tasks) # {}) =>
          LET c == call'[1]
              missing == execute_tool(registry, c.tool_name, c.arguments, c.context,
                                      tasks \ ForeignRows(c, tasks), nextTaskId, now, c.fault)
          IN  /\ ~result'[1].raised
              /\ result'[1].res.success = FALSE
              /\ \A o \in missing : result'[1] = CallResult(o)
              /\ ReachesLookup(c, now) =>
                    result'[1].res.error = NotFoundError(c.arguments.task_id[1])
              /\ tasks' = tasks]_vars

\* user 1 tried to complete an open task of user 2 and was told it was not found
C1_Witness ==
    /\ call # NoCall
    /\ call[1].tool_name = "complete_task"
    /\ call[1].context.user_id = Some(1)
    /\ call[1].arguments.completed = Some(TRUE)
    /\ ForeignRows(call[1], tasks) # {}
    /\ \A r \in ForeignRows(call[1], tasks) : ~r.completed
    /\ result[1].res.error = NotFoundError(call[1].arguments.task_id[1])

\* the status filter of a list_tasks call, "all" when none is given
StatusOf(c) == IF c.arguments.status = None THEN "all" ELSE c.arguments.status[1]

\* C2: whatever calls came before, a successful list_tasks call of user U returns only
\* rows owned by U, and its total is the number of U's rows that match the status filter.
C2_ListOnlyOwnTasks ==
    (call # NoCall /\ call[1].tool_name = "list_tasks" /\ ~result[1].raised
        /\ result[1].res.success) =>
      LET c == call[1]
          u == c.context.user_id[1]
          listed == result[1].res.tasks[1]
      IN  /\ \A i \in 1..Len(listed) :
                \E r \in tasks : r.id = listed[i].id /\ r.user_id = u
          /\ result[1].res.total[1] =
                Cardinality({r \in tasks :
                    /\ r.user_id = u
                    /\ \/ StatusOf(c) = "all"
                       \/ StatusOf(c) = "complete" /\ r.completed
                       \/ StatusOf(c) = "incomplete" /\ ~r.completed})

\* user 1 listed their tasks while user 2 had a task too, and got one back
C2_Witness ==
    /\ call # NoCall
    /\ call[1].tool_name = "list_tasks"
    /\ call[1].context.user_id = Some(1)
    /\ \E r \in tasks : r.user_id = 2
    /\ ~result[1].raised
    /\ result[1].res.success
    /\ Len(result[1].res.tasks[1]) = 1
    /\ result[1].res.total = Some(1)

HandlerRaises(c, t) ==
    /\ c.fault
    /\ c.tool_name \in RegisteredNames
    /\ CASE c.tool_name = "add_task" -> AddTaskErrors(c.arguments, t) = << >>
         [] c.tool_name = "list_tasks" -> ListTasksErrors(c.arguments) = << >>
         [] c.tool_name = "complete_task" -> CompleteTaskErrors(c.arguments) = << >>
         [] c.tool_name = "delete_task" -> DeleteTaskErrors(c.arguments) = << >>
         [] c.tool_name = "update_task" -> UpdateTaskErrors(c.arguments, t) = << >>

Done(r) == turns[r].pc = "done"
Succeeded(r) == Done(r) /\ turns[r].outcome[1].ok
FailedTurn(r) == Done(r) /\ ~turns[r].outcome[1].ok
ErrorOf(r) == turns[r].outcome[1].exc[1]
RowsOf(r) == {m \in messages : m.turn = r}
DeadlineFired(r) == turns[r].trace # << >> /\ turns[r].trace[Len(turns[r].trace)] = "timeout"
\* the turn was to create its conversation (no usable conversation_id in the request)
CreatesConversation(r) == turns[r].conv_id # 0 /\ ~Truthy(turns[r].conversation_id)

\* turn r takes a step that is not its successful end
StepsWithoutSuccess(r) ==
    /\ turns'[r] # turns[r]
    /\ ~(turns'[r].pc = "done" /\ turns'[r].outcome[1].ok)

C6_TimeoutKeepsUserMessage ==
    \A r \in TurnIds : DeadlineFired(r)
        => /\ FailedTurn(r)
           /\ ErrorOf(r).status_code = 504
           /\ \E m \in RowsOf(r) : m.role = "user"
           /\ ~\E m \in RowsOf(r) : m.role = "assistant"

(* C6 amended: when the 30-second deadline fires, the caller gets the      *)
(* gateway-timeout error (504, AGENT_TIMEOUT, a code no other failure      *)
(* uses) and neither the user message nor an assistant message of the      *)
(* turn is persisted.                                                      *)
C6_TimeoutPersistsNoMessage ==
    \A r \in TurnIds :
        /\ DeadlineFired(r)
              => /\ FailedTurn(r)
                 /\ ErrorOf(r).status_code = 504
                 /\ ErrorOf(r).error_code = "AGENT_TIMEOUT"
                 /\ RowsOf(r) = {}
        /\ FailedTurn(r) /\ ~DeadlineFired(r)
              => /\ ErrorOf(r).error_code # "AGENT_TIMEOUT"
                 /\ ErrorOf(r).status_code # 504

\* the deadline fired on a turn that had added its user message to an existing conversation
C6_Witness ==
    \E r \in TurnIds :
        /\ DeadlineFired(r)
        /\ Truthy(turns[r].conversation_id)
        /\ \E m \in messages : m.conversation_id = turns[r].conv_id

\* the tool results of a turn that changed the task table
Mutations(r) ==
    {i \in 1..Len(turns[r].audit) :
        /\ turns[r].audit[i].tool_name \in {"add_task", "complete_task", "update_task", "delete_task"}
        /\ turns[r].audit[i].result.success}

(* C7: a task mutation that a tool committed during a turn stays committed *)
(* when the whole-turn timeout aborts the turn: the step in which the      *)
(* deadline fires leaves the task table as it is, and nothing but a tool   *)
(* dispatch ever changes the task table.                                   *)
C7_TimeoutKeepsToolCommits ==
    [][/\ \A r \in TurnIds :
             (~DeadlineFired(r) /\ DeadlineFired(r)')
                => tasks' = tasks /\ nextTaskId' = nextTaskId
       /\ (tasks' # tasks)
             => \E r \in TurnIds : Len(turns'[r].audit) = Len(turns[r].audit) + 1]_vars

\* a timed-out turn whose add_task had succeeded, the task still in the table
C7_Witness ==
    \E r \in TurnIds :
        /\ DeadlineFired(r)
        /\ \E i \in Mutations(r) :
              /\ turns[r].audit[i].tool_name = "add_task"
              /\ \E x \in tasks : x.id = turns[r].audit[i].result.task[1].id

(***************************************************************************)
(* Properties of the rate limiter.                                         *)
(***************************************************************************)
\* a step in which check_rate_limit ran for the user
ChecksRate(user_id) ==
    /\ now' = now
    /\ rateCheck' # None
    /\ rateCheck'[1].user_id = user_id

(* C8: with the ceiling of 30 requests per rolling 60 seconds, a request   *)
(* of a user is admitted exactly when fewer than 30 requests of that user  *)
(* were admitted less than 60 seconds before it (so the 31st within the    *)
(* window is rejected with the rate-limit error, and admissions that are   *)
(* 60 seconds old or older no longer count), and never have more than 30   *)
(* requests of one user been admitted within 60 seconds.                   *)
C8_RateLimitWindow ==
    /\ [][\A u \in Users : ChecksRate(u)
              => (rateCheck'[1].raised <=> Len(admittedLog[u]) >= 30)]_vars
    /\ [](\A u \in Users :
              /\ Len(admittedLog[u]) <= 30
              /\ \A i \in 1..Len(admittedLog[u]) : now - admittedLog[u][i] < 60)

\* the 31st request of a window is rejected after an earlier window's requests expired
C8_Witness ==
    /\ rateCheck # None
    /\ rateCheck[1].raised
    /\ now >= 60
    /\ Len(admittedLog[1]) = 30
    /\ \E i \in 1..30 : admittedLog[1][i] = now

\* how often a timestamp occurs in a window
Occurrences(stamps, t) == Cardinality({i \in 1..Len(stamps) : stamps[i] = t})

Window(limits, u) == IF u \in DOMAIN limits THEN limits[u] ELSE << >>

\* turn r is answered with the rate-limit error in this step
RejectedNow(r) ==
    /\ turns[r].pc = "idle"
    /\ turns'[r].pc = "done"
    /\ rateCheck'[1].raised

(* C9: a request rejected by the rate limiter has no side effects: no      *)
(* timestamp is added to any user's window, the caller gets the rate-limit *)
(* error whatever the message and conversation id are, no conversation or  *)
(* message is created, looked up or persisted, no task changes and the     *)
(* reasoning engine is not called.                                         *)
C9_RejectionHasNoSideEffects ==
    [][\A r \in TurnIds : RejectedNow(r)
          => /\ \A u \in Users : \A t \in 0..now :
                   Occurrences(Window(user_rate_limit', u), t)
                      <= Occurrences(Window(user_rate_limit, u), t)
             /\ DOMAIN user_rate_limit' = DOMAIN user_rate_limit
             /\ turns'[r].outcome[1].exc[1].error_code = "RATE_LIMIT_EXCEEDED"
             /\ turns'[r].outcome[1].exc[1].status_code = 429
             /\ turns'[r].llm_calls = << >>
             /\ turns'[r].audit = << >>
             /\ turns'[r].conv_id = 0
             /\ turns'[r].history = << >>
             /\ UNCHANGED <<conversations, messages, nextConversationId, nextMessageId,
                            tasks, nextTaskId>>]_vars

\* a rejected request whose message was blank, while a conversation exists
C9_Witness ==
    \E r \in TurnIds :
        /\ FailedTurn(r)
        /\ ErrorOf(r).error_code = "RATE_LIMIT_EXCEEDED"
        /\ StrLen(turns[r].message) = 0
        /\ conversations # {}

(***************************************************************************)
(* Properties of the turn controller.                                      *)
(***************************************************************************)
\* get_agent_response returned (the deadline did not cut it short)
AgentReturned(r) == Done(r) /\ turns[r].first # None /\ ~DeadlineFired(r)

Positions(r, ev) == {i \in 1..Len(turns[r].trace) : turns[r].trace[i] = ev}

(* C10: in any turn the reasoning engine is called at most twice; a turn   *)
(* whose first response requests no tools makes exactly one call and ends  *)
(* with that response's reply (the fixed fallback reply if it has no       *)
(* text) and an empty audit list; a turn whose first response requests     *)
(* tools makes exactly two calls; the second call carries no tool          *)
(* catalogue, tool requests in its response are not dispatched, and every  *)
(* dispatch lies after the first call's return and before the second       *)
(* call's start.                                                           *)
C10_AtMostTwoEngineCalls ==
    \A r \in TurnIds :
        LET turn == turns[r]
        IN  /\ Len(turn.llm_calls) <= 2
            /\ Len(turn.llm_calls) = Cardinality(Positions(r, "call 1") \cup Positions(r, "call 2"))
            /\ (AgentReturned(r) /\ turn.first[1].error = None /\ turn.first[1].tool_calls = << >>)
                  => /\ Len(turn.llm_calls) = 1
                     /\ turn.audit = << >>
                     /\ Succeeded(r)
                           => /\ turn.outcome[1].response[1].tool_calls = << >>
                              /\ turn.outcome[1].response[1].response =
                                    IF Truthy(turn.first[1].content)
                                    THEN turn.first[1].content[1] ELSE FallbackReply
            /\ (AgentReturned(r) /\ turn.first[1].error = None /\ turn.first[1].tool_calls # << >>)
                  => /\ Len(turn.llm_calls) = 2
                     /\ Len(turn.audit) = Len(turn.first[1].tool_calls)
            /\ Len(turn.llm_calls) = 2 => turn.llm_calls[2].tools = None
            /\ Cardinality(Positions(r, "dispatch")) = Len(turn.audit)
            /\ turn.first # None => Len(turn.audit) <= Len(turn.first[1].tool_calls)
            /\ \A i \in Positions(r, "dispatch") :
                  /\ \E j \in Positions(r, "return 1") : j < i
                  /\ \A j \in Positions(r, "call 2") : i < j

\* a turn that ran a tool and whose second response asked for another tool
C10_Witness ==
    \E r \in TurnIds :
        /\ Succeeded(r)
        /\ Len(turns[r].llm_calls) = 2
        /\ turns[r].second[1].tool_calls # << >>
        /\ Len(turns[r].audit) = 2

\* the tools the first response of turn r requested
Requested(r) == IF turns[r].first = None THEN << >> ELSE turns[r].first[1].tool_calls

\* a dispatch of turn r returns in this step
DispatchReturns(r) == Len(turns'[r].audit) > Len(turns[r].audit)

(* C11: the tools t1..tn of the first response are dispatched one at a     *)
(* time in the requested order: each step adds at most one entry to one    *)
(* turn's audit list, the i-th entry names ti and carries a result of      *)
(* dispatching ti (its parsed arguments, the turn's user) on the task      *)
(* store as it then was; a successful turn returns exactly those n         *)
(* entries.                                                                *)
C11_ToolsInRequestedOrder ==
    /\ [][\A r \in TurnIds : DispatchReturns(r)
              => LET i == Len(turns[r].audit) + 1
                     ti == Requested(r)[i]
                 IN  /\ Len(turns'[r].audit) = i
                     /\ SubSeq(turns'[r].audit, 1, i - 1) = turns[r].audit
                     /\ turns'[r].audit[i].tool_name = ti.name
                     /\ \E o \in execute_tool(registry, ti.name, json_loads(ti),
                                              Context(Some(turns[r].user_id), now),
                                              tasks, nextTaskId, now, FALSE) :
                           /\ turns'[r].audit[i].result = o.res
                           /\ tasks' = o.tasks
                     /\ \A q \in TurnIds \ {r} : turns'[q].audit = turns[q].audit]_vars
    /\ [](\A r \in TurnIds :
             /\ \A i \in 1..Len(turns[r].audit) :
                   turns[r].audit[i].tool_name = Requested(r)[i].name
             /\ Succeeded(r)
                   => /\ Len(turns[r].audit) = Len(Requested(r))
                      /\ turns[r].outcome[1].response[1].tool_calls = turns[r].audit)

\* a successful turn that ran add_task and then complete_task on the new task
C11_Witness ==
    \E r \in TurnIds :
        /\ Succeeded(r)
        /\ Len(turns[r].outcome[1].response[1].tool_calls) = 2
        /\ turns[r].outcome[1].response[1].tool_calls[1].tool_name = "add_task"
        /\ turns[r].outcome[1].response[1].tool_calls[2].tool_name = "complete_task"
        /\ turns[r].outcome[1].response[1].tool_calls[2].result.success

(* ------------------------------------------------------------------ *)
(* C12: each entry of a turn's audit list records the tool's name,    *)
(* the arguments the tool was dispatched with, and the result of the  *)
(* dispatch.                                                          *)
(* ------------------------------------------------------------------ *)
C12_AuditRecordsArguments ==
    \A r \in TurnIds :
        \A i \in 1..Len(turns[r].audit) :
            LET entry == turns[r].audit[i]
            IN  /\ DOMAIN entry = {"tool_name", "arguments", "result"}
                /\ entry.tool_name = Requested(r)[i].name
                /\ entry.arguments = json_loads(Requested(r)[i])

EngineRaised(r) ==
    \/ turns[r].first # None /\ turns[r].first[1].error # None
    \/ turns[r].second # None /\ turns[r].second[1].error # None

RaisedText(r) ==
    IF turns[r].second # None THEN turns[r].second[1].error[1] ELSE turns[r].first[1].error[1]

EmptyArguments == [f \in {} |-> None]

Unparsable(r, i) == Requested(r)[i].arguments = None

\* the tool messages of the turn's second request to the engine
ToolMessages(r) ==
    SelectSeq(turns[r].llm_calls[2].messages, LAMBDA m : m.role = "tool")

DispatchedEmpty ==
    [][\A r \in TurnIds :
          DispatchReturns(r) /\ Unparsable(r, Len(turns[r].audit) + 1)
             => LET i == Len(turns[r].audit) + 1
                    ti == Requested(r)[i]
                IN  /\ \E o \in execute_tool(registry, ti.name, EmptyArguments,
                                             Context(Some(turns[r].user_id), now),
                                             tasks, nextTaskId, now, FALSE) :
                           turns'[r].audit[i] = [tool_name |-> ti.name, result |-> o.res]
                    /\ tasks' = tasks
                    /\ turns'[r].pc \in {"tools", "second_call"}
                    /\ turns'[r].outcome = None]_vars

FedBack ==
    [](\A r \in TurnIds :
          Len(turns[r].llm_calls) = 2
             => /\ Len(ToolMessages(r)) = Len(Requested(r))
                /\ \A i \in 1..Len(Requested(r)) :
                      Unparsable(r, i)
                         => /\ ToolMessages(r)[i].tool_call_id = Requested(r)[i].id
                            /\ ToolMessages(r)[i].content = [json |-> turns[r].audit[i].result])

(* C14 as stated: each of the five tools rejects the empty argument   *)
(* set with a structured result whose success flag is false.          *)
C14_EveryToolRejectsEmptyArguments ==
    /\ DispatchedEmpty
    /\ FedBack
    /\ [](\A r \in TurnIds : \A i \in 1..Len(turns[r].audit) :
             Unparsable(r, i) => ~turns[r].audit[i].result.success)

(* C14 amended: add_task, complete_task, delete_task and update_task  *)
(* reject the empty argument set with a structured result whose       *)
(* success flag is false; list_tasks, all of whose inputs have        *)
(* defaults, accepts it and lists with the defaults.                  *)
C14_UnparsableArgumentsDispatchedEmpty ==
    /\ DispatchedEmpty
    /\ FedBack
    /\ [](\A r \in TurnIds : \A i \in 1..Len(turns[r].audit) :
             Unparsable(r, i)
                => LET res == turns[r].audit[i].result
                   IN  IF turns[r].audit[i].tool_name = "list_tasks"
                       THEN /\ res.success
                            /\ Len(res.tasks) <= DEFAULT_LIMIT
                       ELSE /\ ~res.success
                            /\ res.error[1] = "Invalid input: ")

C14_Witness ==
    \E r \in TurnIds :
        /\ Succeeded(r)
        /\ Len(turns[r].audit) = 4
        /\ \A i \in 1..4 : Unparsable(r, i)
        /\ turns[r].audit[1].tool_name = "list_tasks"
        /\ turns[r].audit[1].result.success
        /\ ~turns[r].audit[2].result.success
        /\ turns[r].outcome[1].response[1].tool_calls = turns[r].audit

(***************************************************************************)
(* Loading the context window of a long conversation.  The service has     *)
(* restarted (the limiter is empty) over a database that holds one          *)
(* conversation of user 1, written by earlier successful turns: a user     *)
(* message and an assistant message each.  Two rows written by overlapping *)
(* turns may carry the same created_at.                                    *)
(***************************************************************************)
MaxPairs == 6         \* earlier turns of the stored conversation

\* the content of the i-th stored message
Said(i) == Str(0, "message " \o ToString(i), IF i < 10 THEN 9 ELSE 10, 0)

\* the i-th row written; from row tie on, created_at is one second behind, so
\* that rows tie - 1 and tie carry the same instant (tie = 0: no two rows do)
StoredMessage(i, tie) ==
    [Message(1, IF i % 2 = 1 THEN "user" ELSE "assistant", Some(Said(i)), None,
             IF tie > 0 /\ i >= tie THEN i - 1 ELSE i, 0)
       EXCEPT !.id = i]

\* the rows of a turn of another user, newer than the n stored ones
OtherMessages(n) ==
    {[Message(2, "user", Some(Str(0, "elsewhere", 9, 0)), None, n + 1, 0) EXCEPT !.id = n + 1],
     [Message(2, "assistant", Some(Reply), None, n + 1, 0) EXCEPT !.id = n + 2]}

\* a conversation whose first message was said at time t and whose last turn ended at time u
StoredConversation(id, user_id, said, t, u) ==
    [Conversation(id, user_id, ConversationTitle(said), t) EXCEPT !.updated_at = get_utc_now(u)]

HistoryNow == 2 * MaxPairs + RATE_WINDOW_SECONDS

HistoryInit ==
    /\ registry = lifespan
    /\ now = HistoryNow
    /\ tasks = {}
    /\ nextTaskId = 1
    /\ calls = 0
    /\ call = NoCall
    /\ result = NoResult
    /\ RateStateInit
    /\ openai_client = TRUE
    /\ turns = [r \in TurnIds |-> IdleTurn]
    /\ reply = None
    /\ \E pairs \in 1..MaxPairs, other \in BOOLEAN :
          \E tie \in {0} \cup 2..(2 * pairs) :
             /\ conversations =
                   {StoredConversation(1, 1, Said(1), 1,
                                       StoredMessage(2 * pairs, tie).created_at.wall)}
                      \cup (IF other
                            THEN {StoredConversation(2, 2, Str(0, "elsewhere", 9, 0),
                                                     2 * pairs + 1, 2 * pairs + 1)}
                            ELSE {})
             /\ messages =
                   {StoredMessage(i, tie) : i \in 1..(2 * pairs)}
                      \cup (IF other THEN OtherMessages(2 * pairs) ELSE {})
             /\ nextConversationId = 3
             /\ nextMessageId = 2 * pairs + 3

\* a further message to the stored conversation, from its owner
HistoryRequests == {ChatRequest(1, Hello, Some(Str(0, "1", 1, 0)))}

HistoryNext == \E r \in TurnIds, req \in HistoryRequests : SendChatMessage(r, req)

SpecHistory == HistoryInit /\ [][HistoryNext]_vars

\* the stored rows of the conversation a turn continues
Stored(r) == {m \in messages : m.conversation_id = turns[r].conv_id}

\* the stored row a history entry was made from
RowOf(r, entry) == CHOOSE m \in Stored(r) : m.role = entry.role /\ m.content = entry.content

Continues(r) == turns[r].pc = "first_call" /\ Truthy(turns[r].conversation_id)

(* ------------------------------------------------------------------ *)
(* C15: a turn on an existing conversation with M persisted messages  *)
(* gives the engine a history of exactly min(M, 10) entries: the most *)
(* recently created messages of that conversation, in creation order, *)
(* oldest first.                                                      *)
(* ------------------------------------------------------------------ *)
C15_HistoryIsLastTen ==
    \A r \in TurnIds :
        Continues(r)
            => LET h == turns[r].history
                   M == Cardinality(Stored(r))
               IN  /\ Len(h) = IF M < 10 THEN M ELSE 10
                   /\ \A i \in 1..Len(h) :
                         \E m \in Stored(r) : m.role = h[i].role /\ m.content = h[i].content
                   /\ \A i, j \in 1..Len(h) :
                         i < j => /\ RowOf(r, h[i]) # RowOf(r, h[j])
                                  /\ RowOf(r, h[i]).created_at.wall
                                        <= RowOf(r, h[j]).created_at.wall
                   /\ \A m \in Stored(r) \ {RowOf(r, h[i]) : i \in 1..Len(h)} :
                         \A i \in 1..Len(h) :
                            m.created_at.wall <= RowOf(r, h[i]).created_at.wall
                   /\ SubSeq(turns[r].llm_calls[1].messages, 2, Len(h) + 1) = h

C15_Witness ==
    \E r \in TurnIds :
        /\ Continues(r)
        /\ Cardinality(Stored(r)) = 12
        /\ Len(turns[r].history) = 10
        /\ turns[r].history[1].content = Some(Said(3))
        /\ turns[r].history[10].content = Some(Said(12))

\* the request of turn r names a conversation that exists and belongs to another user
NamesForeignConversation(turn, convs) ==
    /\ Truthy(turn.conversation_id)
    /\ ParseInt(turn.conversation_id[1]) # None
    /\ \E c \in convs : /\ c.id = ParseInt(turn.conversation_id[1])[1]
                        /\ c.user_id # turn.user_id

Arrives(r) == turns[r].pc = "idle" /\ turns'[r].pc # "idle"

(* ------------------------------------------------------------------ *)
(* C16: a chat turn that supplies the id of a conversation owned by   *)
(* another user fails as not-found/forbidden, without calling the     *)
(* reasoning engine, without adding any message and without changing  *)
(* that conversation's updated_at.                                    *)
(* ------------------------------------------------------------------ *)
C16_ForeignConversationRefused ==
    [][\A r \in TurnIds :
          Arrives(r) /\ NamesForeignConversation(turns'[r], conversations)
             => /\ turns'[r].pc = "done"
                /\ ~turns'[r].outcome[1].ok
                /\ turns'[r].llm_calls = << >>
                /\ turns'[r].trace = << >>
                /\ turns'[r].user_msg = None
                /\ messages' = messages
                /\ conversations' = conversations
                /\ nextConversationId' = nextConversationId
                /\ ~rateCheck'[1].raised /\ StrLen(turns'[r].message) > 0
                      => turns'[r].outcome[1].exc
                            = Some(HTTPException(404, "Conversation not found or access denied"))
         ]_vars

C16_Witness ==
    \E r \in TurnIds :
        /\ Done(r)
        /\ turns[r].user_id = 2
        /\ NamesForeignConversation(turns[r], conversations)
        /\ \E c \in conversations : c.id = 1 /\ c.user_id = 1 /\ c.updated_at = get_utc_now(0)
        /\ ErrorOf(r).status_code = 404
        /\ turns[r].llm_calls = << >>
        /\ \A m \in messages : m.turn # r

(***************************************************************************)
(* The conversation endpoints of routes/chat.py: fetching and deleting a   *)
(* conversation by its id.  The path parameter is an int already.          *)
(***************************************************************************)
\* the orders in which ORDER BY created_at ASC may return the rows
MessagesByCreatedAsc(rows) == {Reverse(q) : q \in MessagesByCreatedDesc(rows)}

Answer(exc, body, convs, msgs) ==
    [exc |-> exc, body |-> body, conversations |-> convs, messages |-> msgs]

ConversationMissing == HTTPException(404, "Conversation not found")
AccessDenied == HTTPException(403, "Access denied")

ConversationDict(c) ==
    [id |-> ToString(c.id), user_id |-> c.user_id, title |-> c.title,
     created_at |-> IsoFormat(c.created_at), updated_at |-> IsoFormat(c.updated_at)]

MessageDict(m) ==
    [id |-> ToString(m.id), conversation_id |-> ToString(m.conversation_id), role |-> m.role,
     content |-> m.content, tool_calls |-> m.tool_calls, created_at |-> IsoFormat(m.created_at)]

\* GET /conversations/{conversation_id}: the answers it may give
get_conversation(conversation_id, current_user, convs, msgs) ==
    LET found == {c \in convs : c.id = conversation_id}
    IN  IF found = {}
        THEN {Answer(Some(ConversationMissing), None, convs, msgs)}
        ELSE LET conversation == CHOOSE c \in found : TRUE
             IN  IF conversation.user_id # current_user
                 THEN {Answer(Some(AccessDenied), None, convs, msgs)}
                 ELSE {Answer(None,
                              Some([conversation |-> ConversationDict(conversation),
                                    messages |-> [i \in 1..Len(q) |-> MessageDict(q[i])]]),
                              convs, msgs)
                       : q \in MessagesByCreatedAsc(
                                  {m \in msgs : m.conversation_id = conversation_id})}

\* DELETE /conversations/{conversation_id}
delete_conversation(conversation_id, current_user, convs, msgs) ==
    LET found == {c \in convs : c.id = conversation_id}
    IN  IF found = {}
        THEN {Answer(Some(ConversationMissing), None, convs, msgs)}
        ELSE LET conversation == CHOOSE c \in found : TRUE
             IN  IF conversation.user_id # current_user
                 THEN {Answer(Some(AccessDenied), None, convs, msgs)}
                 ELSE {Answer(None, Some([message |-> "Conversation deleted successfully"]),
                              convs \ {conversation},
                              {m \in msgs : m.conversation_id # conversation_id})}

\* the conversation ids a caller may put in the path
ConversationIds == 1..3

EndpointReply(op, conversation_id, current_user, a) ==
    Some([op |-> op, conversation_id |-> conversation_id, user_id |-> current_user,
          exc |-> a.exc, body |-> a.body])

GetConversation(u, id) ==
    /\ \E a \in get_conversation(id, u, conversations, messages) :
          reply' = EndpointReply("get_conversation", id, u, a)
    /\ UNCHANGED <<now, toolState, rateState, openai_client, conversations, messages,
                   nextConversationId, nextMessageId, turns>>

DeleteConversation(u, id) ==
    /\ \E a \in delete_conversation(id, u, conversations, messages) :
          /\ reply' = EndpointReply("delete_conversation", id, u, a)
          /\ conversations' = a.conversations
          /\ messages' = a.messages
    /\ UNCHANGED <<now, toolState, rateState, openai_client, nextConversationId,
                   nextMessageId, turns>>

\* chat requests that name a conversation: the stored ones and one that does not exist
ConversationRequests ==
    {ChatRequest(u, Hello, Some(Str(0, ToString(id), 1, 0))) : u \in Users, id \in ConversationIds}

ConversationsNext ==
    \/ \E u \in Users, id \in ConversationIds : GetConversation(u, id)
    \/ \E u \in Users, id \in ConversationIds : DeleteConversation(u, id)
    \/ \E r \in TurnIds, req \in ConversationRequests : SendChatMessage(r, req)

SpecConversations == HistoryInit /\ [][ConversationsNext]_vars

\* a conversation with this id exists and belongs to someone else
Foreign(conversation_id, current_user, convs) ==
    \E c \in convs : c.id = conversation_id /\ c.user_id # current_user

\* an id no conversation has
MissingIds(convs) == {id \in ConversationIds : \A c \in convs : c.id # id}

(* ------------------------------------------------------------------ *)
(* C17: a request that addresses a conversation owned by a different  *)
(* user is answered identically to a request that addresses an id     *)
(* that does not exist, in each of the chat-turn, fetch-conversation  *)
(* and delete-conversation operations.                                *)
(* ------------------------------------------------------------------ *)
C17_ForeignConversationLikeMissing ==
    [][/\ \A r \in TurnIds :
             Arrives(r) /\ NamesForeignConversation(turns'[r], conversations)
                => \A id \in MissingIds(conversations) :
                      \E e \in EnterTurn(r, ChatRequest(turns'[r].user_id, Hello,
                                                        Some(Str(0, ToString(id), 1, 0))),
                                         IF rateCheck'[1].raised THEN Some(RateLimitExceeded)
                                         ELSE None,
                                         conversations, messages, nextConversationId,
                                         registry, openai_client, now) :
                         turns'[r].outcome = e.turn.outcome
       /\ reply' # None /\ reply' # reply
             /\ Foreign(reply'[1].conversation_id, reply'[1].user_id, conversations)
             => \A id \in MissingIds(conversations) :
                   LET answers == IF reply'[1].op = "get_conversation"
                                  THEN get_conversation(id, reply'[1].user_id,
                                                        conversations, messages)
                                  ELSE delete_conversation(id, reply'[1].user_id,
                                                           conversations, messages)
                   IN  /\ \E a \in answers : reply'[1].exc = a.exc /\ reply'[1].body = a.body
                       /\ conversations' = conversations
                       /\ messages' = messages
      ]_vars

(***************************************************************************)
(* The registry on its own: tools are registered, some under a name that   *)
(* is taken, and dispatched by name.                                       *)
(***************************************************************************)
RegisterCall(name, handler) == [tool_name |-> name, handler |-> handler]

\* the names registered and the handlers put behind them
RegisterNames == {"add_task", "test_tool"}
RegisterHandlers == {"add_task", "list_tasks", "delete_task"}

\* mcp_registry.register_tool(name, description, input_schema, handler)
Register(name, handler) ==
    /\ call = NoCall
    /\ registry' = register_tool(registry, name, handler)
    /\ call' = Some(RegisterCall(name, handler))
    /\ result' = Some([raised |-> FALSE, res |-> None])
    /\ UNCHANGED <<now, tasks, nextTaskId, calls, rateState, chatState>>

\* the same arguments under every name: what comes back tells the handlers apart
RegistryDispatches(t) ==
    {DispatchCall(n, PlainArgs("add_task", t), Context(Some(1), t), FALSE) : n \in RegisterNames}

RegistryInit ==
    /\ ToolInit
    /\ registry \in {<< >>, lifespan}

RegistryNext ==
    \/ \E name \in RegisterNames, handler \in RegisterHandlers : Register(name, handler)
    \/ \E c \in RegistryDispatches(now) : Dispatch(c)
    \/ ToolReturn

SpecRegistry == RegistryInit /\ [][RegistryNext]_vars

Registers == call' # NoCall /\ "handler" \in DOMAIN call'[1]
Dispatches == call' # NoCall /\ "arguments" \in DOMAIN call'[1]

\* how often a name occurs in the listing given to the engine
Listed(reg, name) == Cardinality({i \in 1..Len(get_all_tools(reg)) : get_all_tools(reg)[i].name = name})

(* ------------------------------------------------------------------ *)
(* C18: registering a tool under a name that is already registered    *)
(* leaves tool_count() and the set of names unchanged; a later        *)
(* dispatch of that name invokes the second handler, never the first; *)
(* the name appears exactly once in the listing given to the engine.  *)
(* ------------------------------------------------------------------ *)
C18_ReRegistrationOverwrites ==
    /\ [][Registers /\ get_tool(registry, call'[1].tool_name) # None
             => LET name == call'[1].tool_name
                    second == call'[1].handler
                    c == DispatchCall(name, PlainArgs("add_task", now), Context(Some(1), now),
                                      FALSE)
                IN  /\ tool_count(registry') = tool_count(registry)
                    /\ list_tool_names(registry') = list_tool_names(registry)
                    /\ Listed(registry', name) = 1
                    /\ get_tool(registry', name)[1].handler = second
                    /\ execute_tool(registry', name, c.arguments, c.context, tasks, nextTaskId,
                                    now, FALSE)
                          = execute_tool(<<[name |-> name, handler |-> second]>>, name,
                                         c.arguments, c.context, tasks, nextTaskId, now, FALSE)
                    /\ \A other \in RegisteredNames \cup RegisterNames :
                          other # name => get_tool(registry', other) = get_tool(registry, other)
         ]_vars
    /\ [][Dispatches
             => /\ registry' = registry
                /\ get_tool(registry, call'[1].tool_name) # None
                      => \E o \in execute_tool(<<get_tool(registry, call'[1].tool_name)[1]>>,
                                               call'[1].tool_name, call'[1].arguments,
                                               call'[1].context, tasks, nextTaskId, now, FALSE) :
                            /\ result' = Some(CallResult(o))
                            /\ tasks' = o.tasks
         ]_vars
    /\ [][~Registers => registry' = registry]_vars

C18_Witness ==
    /\ call # NoCall
    /\ "arguments" \in DOMAIN call[1]
    /\ call[1].tool_name = "add_task"
    /\ tool_count(registry) = 5
    /\ get_tool(registry, "add_task")[1].handler = "list_tasks"
    /\ result[1].res.success
    /\ "tasks" \in DOMAIN result[1].res
    /\ tasks = {}

(***************************************************************************)
(* Listing on its own: list_tasks is dispatched once on a task table left  *)
(* by earlier add_task and complete_task calls of the two users.           *)
(***************************************************************************)
MaxListTasks == 3     \* rows of the task table that is listed

\* the row add_task wrote at time t for its owner, completed later or not
StoredTask(id, owner, done, t) ==
    LET added == add_task(AddTaskInput([NoAddFields EXCEPT !.title = Some(BuyMilk)], t),
                          {}, id, Context(Some(owner), t), t)
        marked == complete_task(CompleteTaskInput([task_id |-> Some(id), completed |-> Some(TRUE)]),
                                added.tasks, id + 1, Context(Some(owner), ClockStep), ClockStep)
    IN  CHOOSE row \in (IF done THEN marked.tasks ELSE added.tasks) : TRUE

\* when the rows were added: later keys are not older
AddTimes(n) ==
    {ts \in [1..n -> {0, ClockStep}] : \A i, j \in 1..n : i < j => ts[i] <= ts[j]}

ListInit ==
    /\ registry = lifespan
    /\ now = ClockStep
    /\ calls = MaxCalls - 1
    /\ call = NoCall
    /\ result = NoResult
    /\ RateStateInit
    /\ ChatStateInit
    /\ \E n \in 0..MaxListTasks :
          /\ nextTaskId = n + 1
          /\ \E owner \in [1..n -> Users], done \in [1..n -> BOOLEAN], ts \in AddTimes(n) :
                tasks = {StoredTask(i, owner[i], done[i], ts[i]) : i \in 1..n}

\* list_tasks calls of user 1 that pass the schema, and some that do not
ListCalls(t) ==
    {DispatchCall("list_tasks", [status |-> st, limit |-> li, offset |-> off],
                  Context(Some(1), t), FALSE) :
        st \in {None, Some("all"), Some("complete"), Some("incomplete")},
        li \in {None, Some(0), Some(1), Some(2), Some(LIMIT_MAX)},
        off \in {None, Some(1), Some(2), Some(MaxListTasks + 1)}}

ListNext ==
    \/ \E c \in ListCalls(now) : Dispatch(c)
    \/ ToolReturn

SpecList == ListInit /\ [][ListNext]_vars

\* a list_tasks call has returned a listing
ListingReturned == call # NoCall /\ ~result[1].raised /\ result[1].res.success

ListedInput == ListTasksInput(call[1].arguments)

\* the rows of the caller that the status asks for
Asked ==
    {r \in tasks : /\ r.user_id = call[1].context.user_id[1]
                   /\ ListedInput.status = "complete" => r.completed
                   /\ ListedInput.status = "incomplete" => ~r.completed}

Min(a, b) == IF a < b THEN a ELSE b
Max(a, b) == IF a > b THEN a ELSE b

(* ------------------------------------------------------------------ *)
(* C19: for limit in [1,100] and offset >= 0, list_tasks returns      *)
(* len(tasks) = min(limit, max(0, total - offset)), and total is the  *)
(* same for every limit/offset pair on the same store and filter: the *)
(* number of the caller's tasks that match the status.                *)
(* ------------------------------------------------------------------ *)
C19_PageLength ==
    ListingReturned
        => /\ ListedInput.limit \in 1..LIMIT_MAX
           /\ ListedInput.offset >= 0
           /\ result[1].res.total = Some(Cardinality(Asked))
           /\ Len(result[1].res.tasks[1])
                 = Min(ListedInput.limit, Max(0, result[1].res.total[1] - ListedInput.offset))
           /\ result[1].res.limit = Some(ListedInput.limit)
           /\ result[1].res.offset = Some(ListedInput.offset)

C19_Witness ==
    /\ ListingReturned
    /\ result[1].res.total = Some(3)
    /\ ListedInput.offset = 2
    /\ ListedInput.limit = 2
    /\ Len(result[1].res.tasks[1]) = 1

(* ------------------------------------------------------------------ *)
(* C20: status 'complete' returns only completed tasks, 'incomplete'  *)
(* only uncompleted ones, 'all' every task of the user; the results   *)
(* are ordered newest-created first; when nothing matches the result  *)
(* is success=true with an empty list and total 0.                    *)
(* ------------------------------------------------------------------ *)
C20_StatusFilterNewestFirst ==
    ListingReturned
        => LET listed == result[1].res.tasks[1]
               ids == {listed[i].id : i \in 1..Len(listed)}
           IN  /\ \A i \in 1..Len(listed) :
                     \E r \in Asked : /\ r.id = listed[i].id
                                      /\ listed[i].completed = r.completed
                                      /\ listed[i].created_at = IsoFormat(r.created_at)
               /\ \A i, j \in 1..Len(listed) :
                     i < j => /\ listed[i].id # listed[j].id
                              /\ listed[i].created_at.iso.wall >= listed[j].created_at.iso.wall
               /\ \A r \in Asked :
                     r.id \notin ids
                        => \/ Len(listed) = ListedInput.limit
                                 /\ \A i \in 1..Len(listed) :
                                       r.created_at.wall <= listed[i].created_at.iso.wall
                           \/ ListedInput.offset > 0
                                 /\ \A i \in 1..Len(listed) :
                                       r.created_at.wall >= listed[i].created_at.iso.wall
               /\ ListedInput.offset = 0 /\ Cardinality(Asked) <= ListedInput.limit
                     => ids = {r.id : r \in Asked}
               /\ Asked = {} => listed = << >> /\ result[1].res.total = Some(0)

C20_Witness ==
    /\ ListingReturned
    /\ ListedInput.status = "complete"
    /\ ListedInput.offset = 0
    /\ Len(result[1].res.tasks[1]) = 2
    /\ Cardinality({r \in tasks : r.user_id = 1}) = 3
    /\ result[1].res.tasks[1][1].created_at.iso.wall > result[1].res.tasks[1][2].created_at.iso.wall

(***************************************************************************)
(* Editing on its own: two dispatches on a task table left by earlier      *)
(* add_task and complete_task calls of the two users.  The arguments       *)
(* carry titles with surrounding whitespace and of boundary lengths, due   *)
(* dates around the current time with and without a timezone, a user_id    *)
(* key the schemas do not declare, and contexts with no user id.           *)
(***************************************************************************)
EditInit ==
    /\ registry = lifespan
    /\ now = ClockStep
    /\ calls = MaxCalls - 2
    /\ call = NoCall
    /\ result = NoResult
    /\ RateStateInit
    /\ ChatStateInit
    /\ \E n \in 0..MaxTasks :
          /\ nextTaskId = n + 1
          /\ \E owner \in [1..n -> Users], done \in BOOLEAN :
                tasks = {StoredTask(i, owner[i], done /\ i = 1, 0) : i \in 1..n}

\* "  Call mom  ", "   ", and titles of 200 and 201 characters, one of them padded
EditTitles ==
    {BuyMilk, Blank, Str(2, "Call mom", 8, 2),
     Str(0, "x", TITLE_MAX_LENGTH, 0), Str(1, "x", TITLE_MAX_LENGTH, 0)}

\* due dates now, a tick ago and a tick ahead, without a timezone and with one
EditDueDates(t) ==
    {Naive(t), Naive(t - ClockStep), Naive(t + ClockStep),
     Aware(t + ClockStep, ClockStep), Aware(t + ClockStep, 0), Aware(t, 0 - ClockStep)}

\* the arguments with a user_id key added, as the reasoning engine may send them
WithUserId(arguments, u) ==
    [f \in DOMAIN arguments \cup {"user_id"} |->
        IF f = "user_id" THEN Some(u) ELSE arguments[f]]

EditAddArgs(t) ==
    {[NoAddFields EXCEPT !.title = Some(s)] : s \in EditTitles}
      \cup {[NoAddFields EXCEPT !.title = Some(BuyMilk), !.description = Some(Notes),
                                !.due_date = Some(d)] : d \in EditDueDates(t)}
      \cup {[NoAddFields EXCEPT !.due_date = Some(Naive(t))]}

EditUpdateFields(t) ==
    {NoFields,
     [NoFields EXCEPT !.description = Some(Notes)],
     [NoFields EXCEPT !.priority = Some("HIGH")],
     [NoFields EXCEPT !.category = Some("Work")],
     [NoFields EXCEPT !.title = Some(TooLongTitle), !.due_date = Some(Naive(t - ClockStep))]}
      \cup {[NoFields EXCEPT !.title = Some(s)] : s \in EditTitles}
      \cup {[NoFields EXCEPT !.due_date = Some(d)] : d \in EditDueDates(t)}

EditUpdateArgs(t) ==
    {[task_id |-> Some(i), title |-> f.title, description |-> f.description,
      priority |-> f.priority, category |-> f.category, due_date |-> f.due_date] :
        i \in 1..MaxTasks, f \in EditUpdateFields(t)}

\* arguments each tool's schema refuses
RefusedArgs(tool_name, t) ==
    CASE tool_name = "add_task" -> [NoAddFields EXCEPT !.title = Some(TooLongTitle)]
      [] tool_name = "list_tasks" -> [status |-> Some("done"), limit |-> None, offset |-> None]
      [] tool_name = "complete_task" -> [task_id |-> Some(1), completed |-> None]
      [] tool_name = "delete_task" -> [task_id |-> None]
      [] tool_name = "update_task" ->
            [task_id |-> Some(1), title |-> None, description |-> None,
             priority |-> None, category |-> None, due_date |-> Some(Naive(t))]

EditCalls(t) ==
    {DispatchCall("add_task", a, Context(Some(1), t), FALSE) : a \in EditAddArgs(t)}
      \cup {DispatchCall("update_task", a, Context(Some(1), t), FALSE) : a \in EditUpdateArgs(t)}
      \cup {DispatchCall(n, WithUserId(PlainArgs(n, t), 2), Context(Some(1), t), FALSE) :
              n \in RegisteredNames}
      \cup {DispatchCall(n, PlainArgs(n, t), Context(Some(2), t), FALSE) : n \in RegisteredNames}
      \cup {DispatchCall(n, PlainArgs(n, t), Context(None, t), FALSE) : n \in RegisteredNames}
      \cup {DispatchCall(n, RefusedArgs(n, t), Context(None, t), FALSE) : n \in RegisteredNames}

EditNext ==
    \/ \E c \in EditCalls(now) : Dispatch(c)
    \/ ToolReturn

SpecEdit == EditInit /\ [][EditNext]_vars

(***************************************************************************)
(* Properties of the edits.                                                *)
(***************************************************************************)
\* the dispatch just taken ran the named tool and returned success
DispatchSucceeds(tool_name) ==
    /\ IsDispatch
    /\ call'[1].tool_name = tool_name
    /\ ~result'[1].raised
    /\ result'[1].res.success

\* the task an update_task call addresses, before and after the call
Addressed(store, arguments) == {r \in store : r.id = arguments.task_id[1]}

\* the columns of Task that update_task may write, apart from updated_at
UpdatableFields == {"title", "description", "priority", "category", "due_date"}

\* the columns of Task
TaskFields ==
    {"id", "user_id", "title", "description", "completed", "priority", "category",
     "due_date", "created_at", "updated_at"}

\* C21: a successful update_task changes, of the addressed task, only the supplied fields and
\* updated_at: completed, owner, created_at and every field not supplied keep their values, the
\* supplied fields take the validated values, and every other task is unchanged
C21_UpdateChangesOnlySuppliedFields ==
    [][DispatchSucceeds("update_task") =>
         LET arguments == call'[1].arguments
             input == UpdateTaskInput(arguments, now)
         IN  \E old \in Addressed(tasks, arguments), new \in Addressed(tasks', arguments) :
                /\ tasks' \ {new} = tasks \ {old}
                /\ nextTaskId' = nextTaskId
                /\ \A f \in TaskFields \ (UpdatableFields \cup {"updated_at"}) : new[f] = old[f]
                /\ \A f \in UpdatableFields : ~Has(arguments, f) => new[f] = old[f]
                /\ Has(arguments, "title") => new.title = input.title[1]
                /\ Has(arguments, "description") => new.description = input.description
                /\ Has(arguments, "priority") => new.priority = input.priority[1]
                /\ Has(arguments, "category") => new.category = input.category
                /\ Has(arguments, "due_date") =>
                      new.due_date = Some(ReplaceNaive(input.due_date[1]))
                /\ new.updated_at = get_utc_now(now)]_vars

\* an update_task call that supplied only a title has succeeded on a task that has a
\* description and a due date
C21_Witness ==
    /\ call # NoCall
    /\ call[1].tool_name = "update_task"
    /\ ~result[1].raised
    /\ result[1].res.success
    /\ ~Has(call[1].arguments, "description")
    /\ ~Has(call[1].arguments, "due_date")
    /\ \E r \in Addressed(tasks, call[1].arguments) :
          r.description # None /\ r.due_date # None

\* the dispatch just taken ran add_task or update_task with a due date among the arguments
DispatchesWithDueDate ==
    /\ IsDispatch
    /\ call'[1].tool_name \in {"add_task", "update_task"}
    /\ Has(call'[1].arguments, "due_date")

\* the instant a due date denotes, one without timezone read as UTC
DueInstant(d) == IF d.tz = None THEN d.wall ELSE d.wall - d.tz[1]

MentionsFuture(error) ==
    \E i \in DOMAIN error : error[i] = ": Value error, Due date must be in the future"

\* C22: add_task and update_task accept a due date only if it is strictly later than the
\* current time, one without timezone read as UTC: a due date equal to or earlier than now
\* gives a success=false result whose error mentions 'future' and leaves the task table as
\* it was, and a call that succeeded with a due date had one strictly later than now
C22_DueDateMustBeFuture ==
    [][DispatchesWithDueDate =>
         LET due == call'[1].arguments.due_date[1]
         IN  /\ DueInstant(due) <= now =>
                   /\ ~result'[1].raised
                   /\ ~result'[1].res.success
                   /\ MentionsFuture(result'[1].res.error)
                   /\ tasks' = tasks
                   /\ nextTaskId' = nextTaskId
             /\ (~result'[1].raised /\ result'[1].res.success) => DueInstant(due) > now]_vars

\* a due date whose wall time is later than now but whose instant, by its timezone, is now
\* has been refused
C22_Witness ==
    /\ call # NoCall
    /\ call[1].tool_name \in {"add_task", "update_task"}
    /\ Has(call[1].arguments, "due_date")
    /\ call[1].arguments.due_date[1].tz # None
    /\ call[1].arguments.due_date[1].wall > now
    /\ DueInstant(call[1].arguments.due_date[1]) = now
    /\ ~result[1].raised
    /\ ~result[1].res.success

\* C23: every task that add_task or update_task created or retitled has a stored title with
\* no leading or trailing whitespace and of 1 to 200 characters
C23_StoredTitlesTrimmedAndBounded ==
    \A r \in tasks :
        /\ r.title.lead = 0
        /\ r.title.trail = 0
        /\ StrLen(r.title) >= 1
        /\ StrLen(r.title) <= TITLE_MAX_LENGTH

\* the dispatch just taken ran a registered tool with a context that carries no user id
DispatchesWithoutUser ==
    /\ IsDispatch
    /\ call'[1].tool_name \in RegisteredNames
    /\ ~call'[1].fault
    /\ Unauthenticated(call'[1].context)

\* what the tool's input schema raises on the arguments
SchemaErrors(tool_name, arguments, t) ==
    CASE tool_name = "add_task" -> AddTaskErrors(arguments, t)
      [] tool_name = "list_tasks" -> ListTasksErrors(arguments)
      [] tool_name = "complete_task" -> CompleteTaskErrors(arguments)
      [] tool_name = "delete_task" -> DeleteTaskErrors(arguments)
      [] tool_name = "update_task" -> UpdateTaskErrors(arguments, t)

\* the result of the dispatch does not depend on the task table
StoreNotRead ==
    \A o \in execute_tool(registry, call'[1].tool_name, call'[1].arguments, call'[1].context,
                          {}, 1, now, call'[1].fault) :
        result'[1] = CallResult(o)

\* C24 as stated: a tool dispatched with a context that carries no user id returns
\* success=false with the 'Authentication required' error whatever the arguments are, and
\* does not read or change the task store
C24_ContextCheckedBeforeInput ==
    [][DispatchesWithoutUser =>
         /\ ~result'[1].raised
         /\ ~result'[1].res.success
         /\ result'[1].res.error = AuthRequiredError
         /\ StoreNotRead
         /\ tasks' = tasks
         /\ nextTaskId' = nextTaskId]_vars

\* C24, amended: a tool dispatched with a context that carries no user id returns
\* success=false and does not read or change the task store; the error is 'Authentication
\* required' when the tool's input schema accepts the arguments, and the schema's
\* 'Invalid input' error when it does not, as the schema is applied before the handler runs
C24_ContextCheckedAfterSchema ==
    [][DispatchesWithoutUser =>
         LET errors == SchemaErrors(call'[1].tool_name, call'[1].arguments, now)
         IN  /\ ~result'[1].raised
             /\ ~result'[1].res.success
             /\ errors = << >> => result'[1].res.error = AuthRequiredError
             /\ errors # << >> => result'[1].res.error = <<"Invalid input: ">> \o errors
             /\ StoreNotRead
             /\ tasks' = tasks
             /\ nextTaskId' = nextTaskId]_vars

\* delete_task, dispatched with no user id for a task that is stored, has answered
\* 'Authentication required'
C24_Witness ==
    /\ call # NoCall
    /\ call[1].tool_name = "delete_task"
    /\ Unauthenticated(call[1].context)
    /\ DeleteTaskErrors(call[1].arguments) = << >>
    /\ \E r \in tasks : r.id = call[1].arguments.task_id[1]
    /\ ~result[1].raised
    /\ result[1].res.error = AuthRequiredError

(***************************************************************************)
(* Turns whose tool requests name a user: both users have a task, either   *)
(* of them sends a message, and the reasoning engine answers with tool     *)
(* calls whose arguments carry a user_id key, the caller's or the other's. *)
(***************************************************************************)
NamedInit ==
    /\ registry = lifespan
    /\ now = 0
    /\ tasks = {StoredTask(u, u, FALSE, 0) : u \in Users}
    /\ nextTaskId = Cardinality(Users) + 1
    /\ calls = 0
    /\ call = NoCall
    /\ result = NoResult
    /\ RateStateInit
    /\ ChatStateInit
    /\ openai_client = TRUE

NamedRequestLists ==
    UNION {{<<ToolRequest("call_1", "add_task", Some(WithUserId(AddMilk, v)))>>,
            <<ToolRequest("call_1", "list_tasks",
                          Some(WithUserId(PlainArgs("list_tasks", 0), v)))>>}
           : v \in Users}
      \cup UNION {{<<ToolRequest("call_1", "complete_task",
                                 Some(WithUserId([task_id |-> Some(i), completed |-> Some(TRUE)], v))),
                     ToolRequest("call_2", "delete_task",
                                 Some(WithUserId([task_id |-> Some(i)], v)))>>,
                   <<ToolRequest("call_1", "update_task",
                                 Some(WithUserId([PlainArgs("update_task", 0)
                                                    EXCEPT !.task_id = Some(i)], v)))>>}
                  : i \in Users, v \in Users}

NamedResponses == {Completion(None, reqs) : reqs \in NamedRequestLists}

NamedNext ==
    \/ \E r \in TurnIds, u \in Users : SendChatMessage(r, ChatRequest(u, Hello, None))
    \/ \E r \in TurnIds, resp \in NamedResponses : FirstResponse(r, resp, FALSE)
    \/ \E r \in TurnIds : ExecuteTool(r)
    \/ \E r \in TurnIds, resp \in SecondResponses, commitFails \in BOOLEAN :
          SecondResponse(r, resp, commitFails)
    \/ \E r \in TurnIds : Timeout(r)
    \/ \E r \in TurnIds : Respond(r)
    \/ ChatTick

SpecNamed == NamedInit /\ [][NamedNext]_vars

\* the arguments without their user_id key
WithoutUserId(arguments) == [f \in DOMAIN arguments \ {"user_id"} |-> arguments[f]]

OwnedBy(store, u) == {row \in store : row.user_id = u}

\* C29: the user whose tasks a tool call of a turn reads, creates or changes is the turn's
\* authenticated user: every row the dispatch adds, changes or removes is owned by that user
\* before and after, and its result and effect are those of the same tool run for that user
\* on that user's own rows with the user_id key taken out of the arguments
C29_ToolsActForAuthenticatedUser ==
    [][\A r \in TurnIds : DispatchReturns(r) =>
         LET u == turns[r].user_id
             tool_call == Requested(r)[Len(turns'[r].audit)]
             res == turns'[r].audit[Len(turns'[r].audit)].result
         IN  /\ \A row \in (tasks' \ tasks) \cup (tasks \ tasks') : row.user_id = u
             /\ \E o \in execute_tool(registry, tool_call.name,
                                      WithoutUserId(json_loads(tool_call)),
                                      Context(Some(u), now), OwnedBy(tasks, u), nextTaskId,
                                      now, FALSE) :
                   /\ ~o.raised
                   /\ res = o.res
                   /\ OwnedBy(tasks', u) = o.tasks
                   /\ nextTaskId' = o.nextTaskId]_vars

\* a turn of one user has dispatched a tool whose arguments name the other user and the
\* id of the other user's task, and the tool has answered
C29_Witness ==
    \E r \in TurnIds :
        /\ turns[r].audit # << >>
        /\ LET arguments == json_loads(Requested(r)[Len(turns[r].audit)])
           IN  /\ arguments.user_id # Some(turns[r].user_id)
               /\ "task_id" \in DOMAIN arguments
               /\ arguments.task_id # Some(turns[r].user_id)

(***************************************************************************)
(* Properties of the turn's records.                                       *)
(***************************************************************************)
\* the persisted messages of a conversation
MessagesOf(conversation_id) == {m \in messages : m.conversation_id = conversation_id}

\* the sequences that list the rows by strictly increasing creation time
StrictCreationOrders(rows) ==
    {q \in MessagesByCreatedAsc(rows) :
        \A i, j \in 1..Len(q) : i < j => q[i].created_at.wall < q[j].created_at.wall}

TurnSucceeds(r) ==
    /\ turns[r].pc # "done"
    /\ turns'[r].pc = "done"
    /\ turns'[r].outcome[1].ok

ConversationKeys(convs) == {c.id : c \in convs}

\* the first 197 characters of the text followed by "..."
CutTitle(content) ==
    [content EXCEPT !.core = @ \o "[:197]...", !.n = CONVERSATION_TITLE_MAX]

\* C26: a successful turn persists exactly one user message and then exactly one assistant
\* message, carrying the tool-call audit when tools ran, in the turn's conversation and sets
\* that conversation's updated_at to the time of the commit, never backwards; a conversation
\* is created only by a successful turn whose request has no conversation id, owned by the
\* caller and titled from the message with at most 200 characters; a turn with a
\* conversation id reuses that conversation and creates none
C26_SuccessfulTurnRecords ==
    [][/\ \A r \in TurnIds : TurnSucceeds(r) =>
            LET turn == turns'[r]
                added == messages' \ messages
                conv == CHOOSE c \in conversations' : c.id = turn.conv_id
            IN  /\ messages \subseteq messages'
                /\ \E u, a \in added :
                      /\ added = {u, a}
                      /\ u.id < a.id
                      /\ \A m \in messages : m.id < u.id
                      /\ u.role = "user" /\ a.role = "assistant"
                      /\ u.conversation_id = turn.conv_id /\ a.conversation_id = turn.conv_id
                      /\ u.content = Some(turn.message)
                      /\ u.tool_calls = None
                      /\ a.content = Some(turn.outcome[1].response[1].response)
                      /\ a.tool_calls = IF turn.audit = << >> THEN None
                                        ELSE Some([tools |-> turn.audit])
                /\ \E c \in conversations' : c.id = turn.conv_id
                /\ conv.updated_at = get_utc_now(now)
                /\ \A c \in conversations :
                      c.id = turn.conv_id =>
                          /\ c.updated_at.wall <= conv.updated_at.wall
                          /\ [c EXCEPT !.updated_at = conv.updated_at] = conv
                /\ conversations' \ {conv} = {c \in conversations : c.id # turn.conv_id}
                /\ IF Truthy(turn.conversation_id)
                   THEN /\ ConversationKeys(conversations') = ConversationKeys(conversations)
                        /\ Some(turn.conv_id) = ParseInt(turn.conversation_id[1])
                   ELSE /\ turn.conv_id \notin ConversationKeys(conversations)
                        /\ conv.user_id = turn.user_id
                        /\ StrLen(conv.title) <= CONVERSATION_TITLE_MAX
                        /\ conv.title = IF StrLen(turn.message) <= CONVERSATION_TITLE_MAX
                                        THEN turn.message ELSE CutTitle(turn.message)
       /\ ConversationKeys(conversations') # ConversationKeys(conversations) =>
             \E r \in TurnIds : TurnSucceeds(r) /\ ~Truthy(turns'[r].conversation_id)]_vars

\* a turn with a message of more than 200 characters and no conversation id has ended with
\* a reply after tools ran
C26_Witness ==
    \E r \in TurnIds :
        /\ Succeeded(r)
        /\ turns[r].audit # << >>
        /\ ~Truthy(turns[r].conversation_id)
        /\ StrLen(turns[r].message) > CONVERSATION_TITLE_MAX
        /\ \E c \in conversations : c.id = turns[r].conv_id /\ StrLen(c.title) = CONVERSATION_TITLE_MAX

\* C27: every tool that was dispatched during a turn and committed a task mutation appears
\* in the audit list the turn controller returns for the turn, also when it returns the
\* error reply because the second reasoning-engine call failed
C27_ReturnedAuditListsEveryMutation ==
    \A r \in TurnIds :
        turns[r].agent # None
            => \A i \in Mutations(r) :
                  /\ i <= Len(turns[r].agent[1].tool_calls)
                  /\ turns[r].agent[1].tool_calls[i].tool_name = turns[r].audit[i].tool_name

(***************************************************************************)
(* Requests in flight together: each request runs check_rate_limit when it *)
(* arrives and then waits for the reasoning engine, which does not answer  *)
(* before the deadline, while further requests of either user arrive.      *)
(* Before that, each user has been served 29 requests or none.             *)
(***************************************************************************)
MaxArrivals == 3      \* requests that arrive

ArrivalIds == 1..MaxArrivals

\* the windows the limiter holds: per user nothing, or 29 requests at time 0
ServedBefore ==
    {[u \in S |-> [i \in 1..(RATE_LIMIT_PER_MINUTE - 1) |-> 0]] : S \in SUBSET Users}

ArrivalsInit ==
    /\ ToolStateInit
    /\ openai_client = TRUE
    /\ conversations = {}
    /\ messages = {}
    /\ nextConversationId = 1
    /\ nextMessageId = 1
    /\ reply = None
    /\ rateCheck = None
    /\ turns = [r \in ArrivalIds |-> IdleTurn]
    /\ \E served \in ServedBefore :
          /\ user_rate_limit = served
          /\ admittedLog = [u \in Users |-> Window(served, u)]

ArrivalRequests == {ChatRequest(u, Hello, None) : u \in Users} \cup {ChatRequest(1, Blank, None)}

ArrivalsNext ==
    \/ \E r \in ArrivalIds, req \in ArrivalRequests : SendChatMessage(r, req)
    \/ \E r \in ArrivalIds : Timeout(r)
    \/ \E r \in ArrivalIds : Respond(r)
    \/ RateTick

SpecArrivals == ArrivalsInit /\ [][ArrivalsNext]_vars

\* request r runs check_rate_limit in this step
ChecksLimit(r) == turns[r].pc = "idle" /\ turns'[r].pc # "idle"

\* the requests that wait for the reasoning engine
InFlight == {r \in ArrivalIds : turns[r].pc \in AgentStates}

\* C28: with requests in flight, check_rate_limit prunes, checks and records in the one step
\* in which a request arrives: the request is refused exactly when 30 requests of its user
\* were admitted in the last 60 seconds, an admitted request is in its user's window when
\* the step ends, and no other user's window changes; so never are more than 30 requests of
\* one user admitted within 60 seconds
C28_RateLimitAtomicPerUser ==
    /\ [][\A r \in ArrivalIds : ChecksLimit(r) =>
            LET u == turns'[r].user_id
            IN  /\ rateCheck'[1].raised <=> Len(admittedLog[u]) >= RATE_LIMIT_PER_MINUTE
                /\ ~rateCheck'[1].raised =>
                      /\ Len(Window(user_rate_limit', u)) = Len(admittedLog[u]) + 1
                      /\ Window(user_rate_limit', u)[Len(admittedLog[u]) + 1] = now
                /\ \A v \in Users \ {u} :
                      /\ Window(user_rate_limit', v) = Window(user_rate_limit, v)
                      /\ (v \in DOMAIN user_rate_limit') = (v \in DOMAIN user_rate_limit)
                      /\ admittedLog'[v] = admittedLog[v]]_vars
    /\ [](\A u \in Users :
              /\ Len(admittedLog[u]) <= RATE_LIMIT_PER_MINUTE
              /\ \A i \in 1..Len(admittedLog[u]) : now - admittedLog[u][i] < RATE_WINDOW_SECONDS)

\* a request of user 1 is refused while a request of each user is in flight
C28_Witness ==
    /\ rateCheck # None
    /\ rateCheck[1].raised
    /\ rateCheck[1].user_id = 1
    /\ \E r1, r2 \in InFlight : turns[r1].user_id = 1 /\ turns[r2].user_id = 2

(***************************************************************************)
(* Chat turns under fair scheduling: while an agent call is running time   *)
(* passes, the timer of asyncio.wait_for fires once the deadline is        *)
(* reached, and a request that has its outcome is answered.  Nothing is    *)
(* assumed of the reasoning engine and the tools: they may never respond.  *)
(***************************************************************************)
\* time passes while an agent call is running that has not reached its deadline
DeadlineTick ==
    /\ NoneEnding
    /\ \E r \in TurnIds : turns[r].pc \in AgentStates
    /\ \A r \in TurnIds : turns[r].pc \in AgentStates
                             => now - turns[r].started < AGENT_TIMEOUT_SECONDS
    /\ now' = now + ClockStep
    /\ admittedLog' = [u \in Users |-> Forget(admittedLog[u], now')]
    /\ rateCheck' = None
    /\ UNCHANGED <<user_rate_limit, toolState, chatState>>

\* requests that open a conversation, continue one, and are refused for a blank message
LiveRequests ==
    {ChatRequest(1, Hello, None), ChatRequest(1, Hello, Some(Str(0, "1", 1, 0))),
     ChatRequest(1, Blank, None)}

\* a reply, an error, and a request for two tools
LiveFirstResponses ==
    {Completion(Some(Reply), << >>), CompletionError(UpstreamError),
     Completion(None, <<ToolRequest("call_1", "add_task", Some(AddMilk)),
                        ToolRequest("call_2", "complete_task",
                                    Some([task_id |-> Some(1), completed |-> Some(TRUE)]))>>)}

LiveNext ==
    \/ \E r \in TurnIds, req \in LiveRequests : SendChatMessage(r, req)
    \/ \E r \in TurnIds, resp \in LiveFirstResponses, commitFails \in BOOLEAN :
          FirstResponse(r, resp, commitFails)
    \/ \E r \in TurnIds : ExecuteTool(r)
    \/ \E r \in TurnIds, resp \in SecondResponses, commitFails \in BOOLEAN :
          SecondResponse(r, resp, commitFails)
    \/ \E r \in TurnIds : Timeout(r)
    \/ \E r \in TurnIds : Respond(r)
    \/ ChatTick
    \/ DeadlineTick

LiveInit == ChatInit /\ openai_client

SpecChatLive ==
    /\ LiveInit
    /\ [][LiveNext]_vars
    /\ WF_vars(DeadlineTick)
    /\ \A r \in TurnIds : WF_vars(Timeout(r)) /\ WF_vars(Respond(r))

\* C30: every chat turn that has passed the rate limiter and waits in AWAITING_FIRST_RESPONSE,
\* EXECUTING_TOOLS or AWAITING_FINAL_RESPONSE eventually ends with a reply or an error for
\* its caller, whether or not the reasoning engine and the tools respond
C30_TurnEventuallyEnds ==
    \A r \in TurnIds :
        (turns[r].pc \in AgentStates) ~> (turns[r].pc = "done" /\ turns[r].outcome # None)

\* a turn whose first reasoning-engine call was never answered has been ended by the
\* deadline with the timeout error
C30_Witness ==
    \E r \in TurnIds :
        /\ Done(r)
        /\ DeadlineFired(r)
        /\ turns[r].first = None
        /\ ErrorOf(r).error_code = "AGENT_TIMEOUT"

====
